---- MODULE Spec2Model ----
(***************************************************************************)
(* Camera geometry core of ROVIO (ntnu-arl/reaqrovio): src/src/Camera.cpp  *)
(* and include/rovio/Camera.hpp.                                           *)
(*                                                                         *)
(* Numbers.  A C++ double is modelled as a decimal fixed-point number with *)
(* six fractional digits: the integer v stands for the real v / S.  Every  *)
(* product, quotient, square root, arc tangent and tangent is computed on  *)
(* that representation with truncation.  The single value NaN stands for   *)
(* every non-finite double (NaN, +Inf, -Inf): it is produced by a division *)
(* by zero, by the square root of a negative number and by a magnitude     *)
(* beyond MaxMag, it is absorbed by every arithmetic operation and every   *)
(* ordered comparison with it is false, as for an IEEE NaN.                *)
(***************************************************************************)
EXTENDS Integers, Sequences, FiniteSets, TLC

\* ------------------------------------------------------------------------
\* double arithmetic.  The arithmetic is written as functions on the integers
\* (AddFn, MulFn, ...): a function application takes the values of its
\* arguments.  Add, Mul, ... are their application.
\* ------------------------------------------------------------------------
H == 10 * 10 * 10
S == H * H                      \* fixed-point unit: S stands for 1.0
MaxMag == 2 * H                  \* largest magnitude represented (2000.0)
Lim == MaxMag * S
NaN == -(Lim + 1)                \* any non-finite double

Abs(a) == IF a < 0 THEN -a ELSE a
Clamp(v) == IF v > Lim \/ v < -Lim THEN NaN ELSE v
IsFinite(a) == a # NaN

\* F applied to the value of v: v is evaluated once, whatever F does with it
Once(v, F(_)) == CHOOSE r \in {F(x) : x \in {v}} : TRUE

NegFn[a \in Int] == IF a = NaN THEN NaN ELSE -a
Neg(a) == NegFn[a]

AddFn[a \in Int, b \in Int] ==
  IF a = NaN \/ b = NaN THEN NaN
  ELSE IF a > 0 /\ b > Lim - a THEN NaN
  ELSE IF a < 0 /\ b < (-Lim) - a THEN NaN
  ELSE a + b
Add(a, b) == AddFn[a, b]

Sub(a, b) == AddFn[a, NegFn[b]]

\* |a| * |b| / S for finite a, b, the 64-bit product split in 3-digit limbs
MulLimbs(xh, xl, yh, yl) ==
  IF xh > 0 /\ yh > Lim \div xh THEN NaN
  ELSE Clamp(xh * yh + ((xh * yl) \div H) + ((xl * yh) \div H)
             + ((((xh * yl) % H) + ((xl * yh) % H)) * H + xl * yl) \div S)

MulAbs(x, y) == MulLimbs(x \div H, x % H, y \div H, y % H)

\* the magnitude m with the sign of a * b (or of a / b)
Signed(m, a, b) ==
  IF m = NaN THEN NaN ELSE IF (a < 0) = (b < 0) THEN m ELSE -m

MulFn[a \in Int, b \in Int] ==
  IF a = NaN \/ b = NaN THEN NaN ELSE Signed(MulAbs(Abs(a), Abs(b)), a, b)
Mul(a, b) == MulFn[a, b]

\* x * S / y for 0 <= x, 0 < y <= 20 * S, by long division in base 100
DivFrac[r \in Int, y \in Int, w \in Int] ==
  IF w = 0 THEN 0
  ELSE ((r * 100) \div y) * w + DivFrac[(r * 100) % y, y, w \div 100]

DivLong[x \in Int, y \in Int] ==
  IF x \div y > MaxMag THEN NaN
  ELSE Clamp((x \div y) * S + DivFrac[x % y, y, 100 * 100])

DivAbs(x, y) ==
  IF y > 200 * S THEN DivLong[x \div 100, y \div 100]
  ELSE IF y > 20 * S THEN DivLong[x \div 10, y \div 10]
  ELSE DivLong[x, y]

\* a / b; x / 0 is +-Inf or NaN
DivFn[a \in Int, b \in Int] ==
  IF a = NaN \/ b = NaN \/ b = 0 THEN NaN
  ELSE Signed(DivAbs(Abs(a), Abs(b)), a, b)
Div(a, b) == DivFn[a, b]

\* a <= b and a < b on doubles: false when an operand is NaN
Leq(a, b) == a # NaN /\ b # NaN /\ a <= b
Less(a, b) == a # NaN /\ b # NaN /\ a < b

Num(n) == n * S                  \* the double of an integer literal
Milli(n) == n * H                \* n / 1000

\* Newton's iteration for the square root, from above: nx is the step from x
SqrtStep(a, x) == (x + DivFn[a, x]) \div 2
SqrtIter[a \in Int, x \in Int, nx \in Int, fuel \in Nat] ==
  IF fuel = 0 \/ nx >= x THEN x ELSE SqrtIter[a, nx, SqrtStep(a, nx), fuel - 1]
SqrtFrom[a \in Int, x \in Int] == SqrtIter[a, x, SqrtStep(a, x), 40]

\* sqrt(a): NaN for a < 0
SqrtFn[a \in Int] ==
  IF a = NaN \/ a < 0 THEN NaN
  ELSE IF a = 0 THEN 0
  ELSE SqrtFrom[a, IF a > S THEN a ELSE S]
Sqrt(a) == SqrtFn[a]

ISqrtIter[a \in Int, x \in Int, nx \in Int, fuel \in Nat] ==
  IF fuel = 0 \/ nx >= x THEN x
  ELSE ISqrtIter[a, nx, (nx + a \div nx) \div 2, fuel - 1]
ISqrtFrom[a \in Int, x \in Int] == ISqrtIter[a, x, (x + a \div x) \div 2, 40]

\* sqrt(a*a + b*b).  The norm of a short vector is taken on the integers, so
\* that it keeps its relative precision as a double does.
HypotFn[a \in Int, b \in Int] ==
  IF a = NaN \/ b = NaN THEN NaN
  ELSE IF Abs(a) <= 30 * H /\ Abs(b) <= 30 * H
       THEN (IF a = 0 /\ b = 0 THEN 0 ELSE ISqrtFrom[a * a + b * b, Abs(a) + Abs(b)])
       ELSE SqrtFn[AddFn[MulFn[a, a], MulFn[b, b]]]
Hypot(a, b) == HypotFn[a, b]

HalfPi == 1570796 + 0            \* CV_PI / 2

\* x - x^3/3 + x^5/5 - ... : pw is the current odd power, k its exponent
AtanSeries[pw \in Int, x2 \in Int, k \in Nat, fuel \in Nat] ==
  IF fuel = 0 \/ pw = 0 THEN 0
  ELSE (pw \div k) - AtanSeries[MulFn[pw, x2], x2, k + 2, fuel - 1]

AtanHalve[r \in Int] == DivFn[r, AddFn[S, SqrtFn[AddFn[S, MulFn[r, r]]]]]

\* atan(r), by atan(r) = 2 atan(r / (1 + sqrt(1 + r^2))) twice and the series
AtanQ[q \in Int] == IF q = NaN THEN NaN ELSE 4 * AtanSeries[q, MulFn[q, q], 1, 12]

AtanFn[r \in Int] ==
  IF r = NaN THEN NaN
  ELSE IF r < 0 THEN NaN
  ELSE AtanQ[AtanHalve[AtanHalve[r]]]
Atan(r) == AtanFn[r]

\* t - t*x2/((k+1)(k+2)) + ... : the Taylor series of sin (k = 1) and cos (k = 0)
TrigSeries[t \in Int, x2 \in Int, k \in Nat, fuel \in Nat] ==
  IF fuel = 0 \/ t = 0 THEN 0
  ELSE t - TrigSeries[MulFn[t, x2] \div ((k + 1) * (k + 2)), x2, k + 2, fuel - 1]

\* tan(th) for 0 <= th <= pi/2
TanFn[th \in Int] ==
  IF th = NaN THEN NaN
  ELSE DivFn[TrigSeries[th, MulFn[th, th], 1, 12], TrigSeries[S, MulFn[th, th], 0, 12]]
Tan(th) == TanFn[th]

\* v rounded to a multiple of m, the least m that leaves 24 significant bits
RoundTo[v \in Int, m \in Int] ==
  IF v \div m < 16777216 THEN ((v + m \div 2) \div m) * m ELSE RoundTo[v, 2 * m]

\* static_cast<float>(v): v rounded to 24 significant bits
ToFloatFn[v \in Int] ==
  IF v = NaN THEN NaN
  ELSE IF v < 0 THEN -RoundTo[-v, 1] ELSE RoundTo[v, 1]
ToFloat(v) == ToFloatFn[v]

\* ------------------------------------------------------------------------
\* Eigen vectors and matrices: a vector is a tuple, a matrix a tuple of rows
\* ------------------------------------------------------------------------
Vector == Seq(Int)
Matrix == Seq(Vector)

DotFrom[a \in Vector, b \in Vector, k \in Nat] ==
  IF k > Len(a) THEN 0 ELSE AddFn[MulFn[a[k], b[k]], DotFrom[a, b, k + 1]]

Dot(a, b) == DotFrom[a, b, 1]
Col(B, j) == [k \in 1..Len(B) |-> B[k][j]]

MatMulFn[A \in Matrix, B \in Matrix] ==
  [r \in 1..Len(A) |-> [j \in 1..Len(B[1]) |-> DotFrom[A[r], Col(B, j), 1]]]
MatMul(A, B) == MatMulFn[A, B]

MatVecFn[A \in Matrix, v \in Vector] == [r \in 1..Len(A) |-> DotFrom[A[r], v, 1]]
MatVec(A, v) == MatVecFn[A, v]

TransposeFn[A \in Matrix] == [j \in 1..Len(A[1]) |-> Col(A, j)]
Transpose(A) == TransposeFn[A]

VecAddFn[a \in Vector, b \in Vector] == [k \in 1..Len(a) |-> AddFn[a[k], b[k]]]
VecAdd(a, b) == VecAddFn[a, b]

VecSubFn[a \in Vector, b \in Vector] == [k \in 1..Len(a) |-> Sub(a[k], b[k])]
VecSub(a, b) == VecSubFn[a, b]

VecDivFn[a \in Vector, d \in Int] == [k \in 1..Len(a) |-> DivFn[a[k], d]]
VecDiv(a, d) == VecDivFn[a, d]

VecFinite(a) == \A k \in 1..Len(a) : a[k] # NaN
MatFinite(A) == \A r \in 1..Len(A) : VecFinite(A[r])
Identity2 == <<<<S, 0>>, <<0, S>>>>

\* Eigen's inverse of a 2x2 matrix: the adjugate times 1 / determinant
Inverse2Fn[A \in Matrix] ==
  Once(Div(S, Sub(Mul(A[1][1], A[2][2]), Mul(A[1][2], A[2][1]))), LAMBDA invdet :
       <<<<Mul(A[2][2], invdet), Mul(Neg(A[1][2]), invdet)>>,
         <<Mul(Neg(A[2][1]), invdet), Mul(A[1][1], invdet)>>>>)
Inverse2(A) == Inverse2Fn[A]

\* Eigen's v.normalized()
NormalizedFn[v \in Vector] ==
  Once(DotFrom[v, v, 1], LAMBDA z : IF Less(0, z) THEN VecDivFn[v, Sqrt(z)] ELSE v)
Normalized(v) == NormalizedFn[v]

\* ------------------------------------------------------------------------
\* Camera: the distortion functions.  cam is the Camera object, a record of
\* its data members; in is the undistorted point on the unit plane.  An
\* overload is named after its extra arguments: _n takes refrac_index, _J
\* returns the Jacobian J.  Each result is a record of the output arguments
\* the function writes.
\* ------------------------------------------------------------------------
ModelType == {"REFRAC", "RADTAN", "EQUIDIST", "EQUIREFRAC", "DS"}

\* (1 + ((k3 r2 + k2) r2 + k1) r2)
RadtanKr(cam, r2) ==
  Add(S, Mul(Add(Mul(Add(Mul(cam.k3_, r2), cam.k2_), r2), cam.k1_), r2))

\* the distorted point, from the locals x2, y2, xy, r2, kr
RadtanOut(cam, in, x2, y2, xy, r2, kr) ==
  <<Add(Add(Mul(in[1], kr), Mul(Mul(cam.p1_, Num(2)), xy)),
        Mul(cam.p2_, Add(r2, Mul(Num(2), x2)))),
    Add(Add(Mul(in[2], kr), Mul(cam.p1_, Add(r2, Mul(Num(2), y2)))),
        Mul(Mul(cam.p2_, Num(2)), xy))>>

distortRadtan(cam, in) ==
  Once(Mul(in[1], in[1]), LAMBDA x2 :
  Once(Mul(in[2], in[2]), LAMBDA y2 :
  Once(Add(x2, y2), LAMBDA r2 :
    [out |-> RadtanOut(cam, in, x2, y2, Mul(in[1], in[2]), r2, RadtanKr(cam, r2)),
     path |-> "general"])))

\* J(0,0)
RadtanJ00(cam, kr, k1t, k2t, k3t, x2, r2, in) ==
  Add(Add(Add(Add(Add(kr, Mul(k1t, x2)), Mul(Mul(k2t, x2), r2)),
              Mul(Mul(Mul(k3t, x2), r2), r2)),
          Mul(Mul(Num(2), cam.p1_), in[2])),
      Mul(Mul(Num(6), cam.p2_), in[1]))

\* J(1,1)
RadtanJ11(cam, kr, k1t, k2t, k3t, y2, r2, in) ==
  Add(Add(Add(Add(Add(kr, Mul(k1t, y2)), Mul(Mul(k2t, y2), r2)),
              Mul(Mul(Mul(k3t, y2), r2), r2)),
          Mul(Mul(Num(6), cam.p1_), in[2])),
      Mul(Mul(Num(2), cam.p2_), in[1]))

\* J(0,1) = J(1,0)
RadtanJoff(cam, k1t, k2t, k3t, xy, r2, in) ==
  Add(Add(Add(Add(Mul(k1t, xy), Mul(Mul(k2t, xy), r2)),
              Mul(Mul(Mul(k3t, xy), r2), r2)),
          Mul(Mul(Num(2), cam.p1_), in[1])),
      Mul(Mul(Num(2), cam.p2_), in[2]))

Symmetric(J00, J01, J11) == <<<<J00, J01>>, <<J01, J11>>>>

distortRadtan_J(cam, in) ==
  Once(Mul(in[1], in[1]), LAMBDA x2 :
  Once(Mul(in[2], in[2]), LAMBDA y2 :
  Once(Mul(in[1], in[2]), LAMBDA xy :
  Once(Add(x2, y2), LAMBDA r2 :
  Once(RadtanKr(cam, r2), LAMBDA kr :
  Once(Mul(Num(2), cam.k1_), LAMBDA k1t :
  Once(Mul(Num(4), cam.k2_), LAMBDA k2t :
  Once(Mul(Num(6), cam.k3_), LAMBDA k3t :
    [out |-> RadtanOut(cam, in, x2, y2, xy, r2, kr),
     J |-> Symmetric(RadtanJ00(cam, kr, k1t, k2t, k3t, x2, r2, in),
                     RadtanJoff(cam, k1t, k2t, k3t, xy, r2, in),
                     RadtanJ11(cam, kr, k1t, k2t, k3t, y2, r2, in)),
     path |-> "general"]))))))))

\* g = 1 + r2 - n2 r2, the radicand of the refraction scale
RefracR2(in) == Add(Mul(in[1], in[1]), Mul(in[2], in[2]))
RefracRadicand(n, r2) == Sub(Add(S, r2), Mul(Mul(n, n), r2))
RefracG(in, n) == RefracRadicand(n, RefracR2(in))

\* out = in * n / sqrt(1 + r2 - n2 r2)
RefracOut(in, n) ==
  Once(Div(n, Sqrt(RefracG(in, n))), LAMBDA m_distort :
    <<Mul(in[1], m_distort), Mul(in[2], m_distort)>>)

\* pow(g, 1.5), pow(g, -1.5), pow(g, -2.0) from sg = sqrt(g): NaN for g < 0
\* and a fractional exponent, Inf for g = 0 and a negative one
Pow15(g, sg) == Mul(g, sg)
PowM15(g, sg) == Div(S, Mul(g, sg))
PowM2(g) == Div(S, Mul(g, g))

\* J(0,0) and J(1,1): v2 is the square of the coordinate, nm1 is n2 - 1
RefracJdiag(n, g, sg, v2, nm1) ==
  Mul(Mul(n, PowM2(g)), Add(Mul(Mul(sg, v2), nm1), Pow15(g, sg)))

RefracJ(in, n) ==
  Once(RefracG(in, n), LAMBDA g :
  Once(Sqrt(g), LAMBDA sg :
  Once(Sub(Mul(n, n), S), LAMBDA nm1 :
    Symmetric(RefracJdiag(n, g, sg, Mul(in[1], in[1]), nm1),
              Mul(Mul(Mul(n, PowM15(g, sg)), Mul(in[1], in[2])), nm1),
              RefracJdiag(n, g, sg, Mul(in[2], in[2]), nm1)))))

distortRefractive(cam, in) ==
  [out |-> RefracOut(in, cam.refrac_ind_), path |-> "general"]
distortRefractive_n(cam, in, refrac_index) ==
  [out |-> RefracOut(in, refrac_index), path |-> "general"]
distortRefractive_J(cam, in) ==
  [out |-> RefracOut(in, cam.refrac_ind_), J |-> RefracJ(in, cam.refrac_ind_),
   path |-> "general"]
distortRefractive_nJ(cam, in, refrac_index) ==
  [out |-> RefracOut(in, refrac_index), J |-> RefracJ(in, refrac_index),
   path |-> "general"]

\* a variant without the guard on the radius: the general branch always runs
BelowEpsNever(r) == FALSE

\* r < 1e-8: of the doubles the model represents, only r = 0 is below 1e-8
BelowEps(r) == Less(r, 1)

\* 1 + c1 th2 + c2 th4 + c3 th6 + c4 th8
EquidistPoly(c1, c2, c3, c4, th2, th4, th6, th8) ==
  Add(Add(Add(Add(S, Mul(c1, th2)), Mul(c2, th4)), Mul(c3, th6)), Mul(c4, th8))

\* th2, th4, th6, th8 of th
EquidistPowers(th) ==
  Once(Mul(th, th), LAMBDA th2 :
  Once(Mul(th2, th2), LAMBDA th4 :
  Once(Mul(th2, th4), LAMBDA th6 : <<th2, th4, th6, Mul(th2, th6)>>)))

\* thd = th (1 + k1 th2 + k2 th4 + k3 th6 + k4 th8)
EquidistThd(cam, th) ==
  Once(EquidistPowers(th), LAMBDA t :
    Mul(th, EquidistPoly(cam.k1_, cam.k2_, cam.k3_, cam.k4_, t[1], t[2], t[3], t[4])))

\* thd_th = 1 + 3 k1 th2 + 5 k2 th4 + 7 k3 th6 + 9 k4 th8
EquidistThdTh(cam, th) ==
  Once(EquidistPowers(th), LAMBDA t :
    EquidistPoly(Mul(Num(3), cam.k1_), Mul(Num(5), cam.k2_), Mul(Num(7), cam.k3_),
                 Mul(Num(9), cam.k4_), t[1], t[2], t[3], t[4]))

\* out and J from the locals s, s_r, r_x, r_y
EquidistOutJ(in, s, s_r, r_x, r_y) ==
  [out |-> <<Mul(in[1], s), Mul(in[2], s)>>,
   J |-> <<<<Add(s, Mul(Mul(in[1], s_r), r_x)), Mul(Mul(in[1], s_r), r_y)>>,
           <<Mul(Mul(in[2], s_r), r_x), Add(s, Mul(Mul(in[2], s_r), r_y))>>>>,
   path |-> "general"]

\* the Jacobian of the equidistant distortion at radius r > 0, th = atan(r)
EquidistJ(cam, in, r, th) ==
  Once(EquidistThd(cam, th), LAMBDA thd :
  Once(Div(S, Add(Mul(r, r), S)), LAMBDA th_r :
  Once(Sub(Div(Mul(EquidistThdTh(cam, th), th_r), r), Div(thd, Mul(r, r))), LAMBDA s_r :
    EquidistOutJ(in, Div(thd, r), s_r, Mul(Div(S, r), in[1]), Mul(Div(S, r), in[2])))))

\* path records the branch a distortion function takes: "identity" is the early
\* return for a degenerate radius (no division by r), "general" the rest
distortEquidist(cam, in) ==
  Once(Hypot(in[1], in[2]), LAMBDA r :
    IF BelowEps(r)
    THEN [out |-> <<in[1], in[2]>>, path |-> "identity"]
    ELSE Once(Div(EquidistThd(cam, Atan(r)), r), LAMBDA s :
           [out |-> <<Mul(in[1], s), Mul(in[2], s)>>, path |-> "general"]))

distortEquidist_J(cam, in) ==
  Once(Hypot(in[1], in[2]), LAMBDA r :
    IF BelowEps(r)
    THEN [out |-> <<in[1], in[2]>>, J |-> Identity2, path |-> "identity"]
    ELSE Once(Atan(r), LAMBDA th : EquidistJ(cam, in, r, th)))

\* (x2 + y2) < 1e-16: of the doubles the model represents, only in = (0,0)
BelowEps2(in) == in[1] = 0 /\ in[2] = 0

\* d1, k1 d1 + 1 and d2 of the double sphere model
DoubleSphereD1(in) == Sqrt(Add(Add(Mul(in[1], in[1]), Mul(in[2], in[2])), S))
DoubleSphereKd(cam, d1) == Add(Mul(cam.k1_, d1), S)
DoubleSphereD2(in, kd) ==
  Sqrt(Add(Add(Mul(in[1], in[1]), Mul(in[2], in[2])), Mul(kd, kd)))

\* 1.0f / (k2 d2 + (1 - k2)(k1 d1 + 1))
DoubleSphereScaling(cam, kd, d2) ==
  Div(S, Add(Mul(cam.k2_, d2), Mul(Sub(S, cam.k2_), kd)))

distortDoubleSphere(cam, in) ==
  IF BelowEps2(in)
  THEN [out |-> <<in[1], in[2]>>, path |-> "identity"]
  ELSE Once(DoubleSphereD1(in), LAMBDA d1 :
       Once(DoubleSphereKd(cam, d1), LAMBDA kd :
       Once(DoubleSphereScaling(cam, kd, DoubleSphereD2(in, kd)), LAMBDA scaling :
         [out |-> <<Mul(in[1], scaling), Mul(in[2], scaling)>>, path |-> "general"])))

\* d2dx (d2dy): v is in(0) (in(1)), d1dv is d1dx (d1dy)
DoubleSphereD2d(cam, v, d1dv, kd, d2) == Div(Add(v, Mul(Mul(d1dv, cam.k1_), kd)), d2)

\* (d2dx k2 - d1dx k1 (k2 - 1)), and the same in y
DoubleSphereG(cam, d1dv, d2dv) ==
  Sub(Mul(d2dv, cam.k2_), Mul(Mul(d1dv, cam.k1_), Sub(cam.k2_, S)))

\* out and J from the locals s, s*s and the two terms gx, gy
DoubleSphereOutJ(in, s, ss, gx, gy) ==
  [out |-> <<Mul(in[1], s), Mul(in[2], s)>>,
   J |-> <<<<Add(Mul(Mul(Mul(Neg(in[1]), gx), s), s), s), Mul(Mul(Neg(ss), in[1]), gy)>>,
           <<Mul(Mul(Neg(ss), in[2]), gx), Add(Mul(Mul(Mul(Neg(in[2]), gy), s), s), s)>>>>,
   path |-> "general"]

DoubleSphereJ(cam, in, d1, kd, d2, s) ==
  Once(Div(in[1], d1), LAMBDA d1dx :
  Once(Div(in[2], d1), LAMBDA d1dy :
    DoubleSphereOutJ(in, s, Mul(s, s),
                     DoubleSphereG(cam, d1dx, DoubleSphereD2d(cam, in[1], d1dx, kd, d2)),
                     DoubleSphereG(cam, d1dy, DoubleSphereD2d(cam, in[2], d1dy, kd, d2)))))

\* a variant of the Jacobian overload without the guard on the radius
distortDoubleSphere_J_General(cam, in) ==
  Once(DoubleSphereD1(in), LAMBDA d1 :
  Once(DoubleSphereKd(cam, d1), LAMBDA kd :
  Once(DoubleSphereD2(in, kd), LAMBDA d2 :
  Once(DoubleSphereScaling(cam, kd, d2), LAMBDA s :
    DoubleSphereJ(cam, in, d1, kd, d2, s)))))

distortDoubleSphere_J(cam, in) ==
  IF BelowEps2(in)
  THEN [out |-> <<in[1], in[2]>>, J |-> Identity2, path |-> "identity"]
  ELSE Once(DoubleSphereD1(in), LAMBDA d1 :
       Once(DoubleSphereKd(cam, d1), LAMBDA kd :
       Once(DoubleSphereD2(in, kd), LAMBDA d2 :
       Once(DoubleSphereScaling(cam, kd, d2), LAMBDA s :
         DoubleSphereJ(cam, in, d1, kd, d2, s)))))

distortEquiRefractive(cam, in) ==
  Once(distortRefractive(cam, in).out, LAMBDA temp : distortEquidist(cam, temp))

\* a variant that takes the equidistant Jacobian at the input point instead of
\* the refracted point
distortEquiRefractive_J_AtInput(cam, in) ==
  Once(distortRefractive_J(cam, in), LAMBDA refrac :
  Once(distortEquidist_J(cam, refrac.out), LAMBDA equi :
    [out |-> equi.out, J |-> MatMul(distortEquidist_J(cam, in).J, refrac.J),
     path |-> equi.path]))

distortEquiRefractive_J(cam, in) ==
  Once(distortRefractive_J(cam, in), LAMBDA refrac :
  Once(distortEquidist_J(cam, refrac.out), LAMBDA equi :
    [out |-> equi.out, J |-> MatMul(equi.J, refrac.J), path |-> equi.path]))

distortEquiRefractive_JJ(cam, in) ==
  Once(distortRefractive_J(cam, in), LAMBDA refrac :
  Once(distortEquidist_J(cam, refrac.out), LAMBDA equi :
    [out |-> equi.out, J_equi |-> equi.J, J_refrac |-> refrac.J, path |-> equi.path]))

distortEquiRefractive_nJ(cam, in, refrac_index) ==
  Once(distortRefractive_nJ(cam, in, refrac_index), LAMBDA refrac :
  Once(distortEquidist_J(cam, refrac.out), LAMBDA equi :
    [out |-> equi.out, J |-> MatMul(equi.J, refrac.J), path |-> equi.path]))

\* distort: the switch on type_.  fn names the function the switch calls; case
\* RADTAN and default are the OTHER arm, both call distortRadtan.
Called(r, name) == [out |-> r.out, path |-> r.path, fn |-> name]
CalledJ(r, name) == [out |-> r.out, J |-> r.J, path |-> r.path, fn |-> name]

distort(cam, in) ==
  CASE cam.type_ = "REFRAC" -> Called(distortRefractive(cam, in), "distortRefractive(in,out)")
    [] cam.type_ = "EQUIDIST" -> Called(distortEquidist(cam, in), "distortEquidist(in,out)")
    [] cam.type_ = "EQUIREFRAC" ->
         Called(distortEquiRefractive(cam, in), "distortEquiRefractive(in,out)")
    [] cam.type_ = "DS" -> Called(distortDoubleSphere(cam, in), "distortDoubleSphere(in,out)")
    [] OTHER -> Called(distortRadtan(cam, in), "distortRadtan(in,out)")

\* a variant of distort(in,out,refrac_index) without the switch
distort_n_EquidistOnly(cam, in, refrac_index) ==
  Called(distortEquidist(cam, in), "distortEquidist(in,out)")

distort_n(cam, in, refrac_index) ==
  CASE cam.type_ = "REFRAC" ->
         Called(distortRefractive_n(cam, in, refrac_index),
                "distortRefractive(in,out,refrac_index)")
    [] cam.type_ = "EQUIDIST" -> Called(distortEquidist(cam, in), "distortEquidist(in,out)")
    [] cam.type_ = "EQUIREFRAC" ->
         Called(distortEquiRefractive(cam, in), "distortEquiRefractive(in,out)")
    [] cam.type_ = "DS" -> Called(distortDoubleSphere(cam, in), "distortDoubleSphere(in,out)")
    [] OTHER -> Called(distortRadtan(cam, in), "distortRadtan(in,out)")

distort_J(cam, in) ==
  CASE cam.type_ = "REFRAC" ->
         CalledJ(distortRefractive_J(cam, in), "distortRefractive(in,out,J)")
    [] cam.type_ = "EQUIDIST" ->
         CalledJ(distortEquidist_J(cam, in), "distortEquidist(in,out,J)")
    [] cam.type_ = "EQUIREFRAC" ->
         CalledJ(distortEquiRefractive_J(cam, in), "distortEquiRefractive(in,out,J)")
    [] cam.type_ = "DS" ->
         CalledJ(distortDoubleSphere_J(cam, in), "distortDoubleSphere(in,out,J)")
    [] OTHER -> CalledJ(distortRadtan_J(cam, in), "distortRadtan(in,out,J)")

distort_nJ(cam, in, refrac_index) ==
  CASE cam.type_ = "REFRAC" ->
         CalledJ(distortRefractive_nJ(cam, in, refrac_index),
                 "distortRefractive(in,out,refrac_index,J)")
    [] cam.type_ = "EQUIDIST" ->
         CalledJ(distortEquidist_J(cam, in), "distortEquidist(in,out,J)")
    [] cam.type_ = "EQUIREFRAC" ->
         CalledJ(distortEquiRefractive_nJ(cam, in, refrac_index),
                 "distortEquiRefractive(in,out,refrac_index,J)")
    [] cam.type_ = "DS" ->
         CalledJ(distortDoubleSphere_J(cam, in), "distortDoubleSphere(in,out,J)")
    [] OTHER -> CalledJ(distortRadtan_J(cam, in), "distortRadtan(in,out,J)")

\* ------------------------------------------------------------------------
\* Camera: bearingToPixel.  An output argument the call does not write is
\* Unwritten.  u is the content of the storage of an uninitialized local
\* (indeterminate: the caller of an operator that reads one supplies it).
\* ------------------------------------------------------------------------
Unwritten == <<>>
K00(cam) == cam.K_[1][1]
K02(cam) == cam.K_[1][3]
K11(cam) == cam.K_[2][2]
K12(cam) == cam.K_[2][3]

\* (vec(0)/vec(2), vec(1)/vec(2))
Project(vec) == <<Div(vec[1], vec[3]), Div(vec[2], vec[3])>>

\* a variant of J1 without the minus signs of its third column
ProjectJUnsigned(vec) ==
  <<<<Div(S, vec[3]), 0, Div(vec[1], Mul(vec[3], vec[3]))>>,
    <<0, Div(S, vec[3]), Div(vec[2], Mul(vec[3], vec[3]))>>>>

\* J1: the Jacobian of the projection
ProjectJ(vec) ==
  <<<<Div(S, vec[3]), 0, Div(Neg(vec[1]), Mul(vec[3], vec[3]))>>,
    <<0, Div(S, vec[3]), Div(Neg(vec[2]), Mul(vec[3], vec[3]))>>>>

\* a variant of the scaling that leaves the principal point out
ScaleOnly(cam, distorted) ==
  <<ToFloat(Mul(K00(cam), distorted[1])), ToFloat(Mul(K11(cam), distorted[2]))>>

\* shift origin and scale: c.x, c.y as float
ShiftScale(cam, distorted) ==
  <<ToFloat(Add(Mul(K00(cam), distorted[1]), K02(cam))),
    ToFloat(Add(Mul(K11(cam), distorted[2]), K12(cam)))>>

\* J3
ScaleJ(cam) == <<<<K00(cam), 0>>, <<0, K11(cam)>>>>

\* a variant of the depth test that lets depth 0 pass: if(vec(2)<0)
BehindCameraStrict(vec) == Less(vec[3], 0)

\* if(vec(2)<=0) return false;
BehindCamera(vec) == Leq(vec[3], 0)

Rejected ==
  [ret |-> FALSE, c |-> Unwritten, J |-> Unwritten, Jdpdn |-> Unwritten,
   fn |-> "none", path |-> "none"]

bearingToPixel(cam, vec) ==
  IF BehindCamera(vec) THEN Rejected
  ELSE Once(distort(cam, Project(vec)), LAMBDA d :
         [ret |-> TRUE, c |-> ShiftScale(cam, d.out), J |-> Unwritten,
          Jdpdn |-> Unwritten, fn |-> d.fn, path |-> d.path])

bearingToPixel_n(cam, vec, refrac_index) ==
  IF BehindCamera(vec) THEN Rejected
  ELSE Once(distort_n(cam, Project(vec), refrac_index), LAMBDA d :
         [ret |-> TRUE, c |-> ShiftScale(cam, d.out), J |-> Unwritten,
          Jdpdn |-> Unwritten, fn |-> d.fn, path |-> d.path])

bearingToPixel_J(cam, vec) ==
  IF BehindCamera(vec) THEN Rejected
  ELSE Once(distort_J(cam, Project(vec)), LAMBDA d :
         [ret |-> TRUE, c |-> ShiftScale(cam, d.out),
          J |-> MatMul(MatMul(ScaleJ(cam), d.J), ProjectJ(vec)),
          Jdpdn |-> Unwritten, fn |-> d.fn, path |-> d.path])

bearingToPixel_nJ(cam, vec, refrac_index) ==
  IF BehindCamera(vec) THEN Rejected
  ELSE Once(distort_nJ(cam, Project(vec), refrac_index), LAMBDA d :
         [ret |-> TRUE, c |-> ShiftScale(cam, d.out),
          J |-> MatMul(MatMul(ScaleJ(cam), d.J), ProjectJ(vec)),
          Jdpdn |-> Unwritten, fn |-> d.fn, path |-> d.path])

\* the derivative of the refracted point with respect to the index
\* (lines 554-565): undistorted * (sqrt(g) n n r2 + pow(g,1.5)) / (g g)
RefracIndexDerivative(undistorted, n) ==
  Once(Add(Mul(undistorted[1], undistorted[1]), Mul(undistorted[2], undistorted[2])),
       LAMBDA r2 :
  Once(Sub(Add(S, r2), Mul(Mul(n, n), r2)), LAMBDA g :
  Once(Sqrt(g), LAMBDA sg :
  Once(Div(Add(Mul(Mul(Mul(sg, n), n), r2), Pow15(g, sg)), Mul(g, g)),
       LAMBDA common_term :
    <<Mul(undistorted[1], common_term), Mul(undistorted[2], common_term)>>))))

Uninit2x2(u) == <<<<u, u>>, <<u, u>>>>
Uninit2x3(u) == <<<<u, u, u>>, <<u, u, u>>>>
Uninit3(u) == <<u, u, u>>

\* K_.block<2,2>(0,0)
Kblock(cam) == <<<<cam.K_[1][1], cam.K_[1][2]>>, <<cam.K_[2][1], cam.K_[2][2]>>>>

\* Jdpdn = K_.block<2,2>(0,0) * J_equi * (the derivative with respect to n)
IndexJacobian(cam, J_equi, undistorted, refrac_index) ==
  MatVec(MatMul(Kblock(cam), J_equi), RefracIndexDerivative(undistorted, refrac_index))

bearingToPixel_JJdpdn(cam, vec, refrac_index, u) ==
  IF BehindCamera(vec) THEN Rejected
  ELSE Once(Project(vec), LAMBDA undistorted :
       IF cam.type_ = "EQUIREFRAC"
       THEN Once(distortEquiRefractive_JJ(cam, undistorted), LAMBDA dd :
              [ret |-> TRUE, c |-> ShiftScale(cam, dd.out),
               J |-> MatMul(MatMul(ScaleJ(cam), MatMul(dd.J_equi, dd.J_refrac)),
                            ProjectJ(vec)),
               Jdpdn |-> IndexJacobian(cam, dd.J_equi, undistorted, refrac_index),
               fn |-> "distortEquiRefractive(in,out,J_equi,J_refrac)",
               path |-> dd.path])
       ELSE Once(distort_nJ(cam, undistorted, refrac_index), LAMBDA dn :
              [ret |-> TRUE, c |-> ShiftScale(cam, dn.out),
               J |-> MatMul(MatMul(ScaleJ(cam), dn.J), ProjectJ(vec)),
               Jdpdn |-> IndexJacobian(cam, Uninit2x2(u), undistorted, refrac_index),
               fn |-> dn.fn, path |-> dn.path]))

\* the overloads on a LWF::NormalVectorElement n: n.vec is n.getVec(), n.M is
\* n.getM().  J = J2*J1 is computed whatever the inner call returned.
bearingToPixel_N(cam, n) == bearingToPixel(cam, n.vec)
bearingToPixel_N_n(cam, n, refrac_index) == bearingToPixel_n(cam, n.vec, refrac_index)

OnManifold(r, n, u) ==
  Once(r, LAMBDA s : [s EXCEPT !.J = MatMul(IF s.ret THEN s.J ELSE Uninit2x3(u), n.M)])

bearingToPixel_N_J(cam, n, u) == OnManifold(bearingToPixel_J(cam, n.vec), n, u)
bearingToPixel_N_nJ(cam, n, refrac_index, u) ==
  OnManifold(bearingToPixel_nJ(cam, n.vec, refrac_index), n, u)
bearingToPixel_N_JJdpdn(cam, n, refrac_index, u) ==
  OnManifold(bearingToPixel_JJdpdn(cam, n.vec, refrac_index, u), n, u)

\* ------------------------------------------------------------------------
\* Camera: pixelToBearing
\* ------------------------------------------------------------------------
max_iter == 100
tolerance == 100                 \* 1e-10, in units of 1 / (S * S)

\* y = (c - K(.,2)) / K(.,.)
Normalize(cam, c) ==
  <<Div(Sub(c[1], K02(cam)), K00(cam)), Div(Sub(c[2], K12(cam)), K11(cam))>>

\* e.dot(e) <= tolerance, the squares taken exactly
WithinTolerance(e) ==
  /\ e[1] # NaN /\ e[2] # NaN
  /\ Abs(e[1]) <= tolerance /\ Abs(e[2]) <= tolerance
  /\ e[1] * e[1] + e[2] * e[2] <= tolerance

\* a variant of the loop body that tests the residual before the update and
\* leaves the guess alone once the residual meets the tolerance
GaussNewtonTestFirst(cam, y, ybar) ==
  Once(distort_J(cam, ybar), LAMBDA d :
  Once(VecSub(y, d.out), LAMBDA e :
  Once(Transpose(d.J), LAMBDA Jt :
  Once(MatVec(MatMul(Inverse2(MatMul(Jt, d.J)), Jt), e), LAMBDA du :
    [ybar |-> IF WithinTolerance(e) THEN ybar ELSE VecAdd(ybar, du), e |-> e]))))

\* one execution of the loop body up to the test: distort, residual, step, update
GaussNewton(cam, y, ybar) ==
  Once(distort_J(cam, ybar), LAMBDA d :
  Once(VecSub(y, d.out), LAMBDA e :
  Once(Transpose(d.J), LAMBDA Jt :
  Once(MatVec(MatMul(Inverse2(MatMul(Jt, d.J)), Jt), e), LAMBDA du :
    [ybar |-> VecAdd(ybar, du), e |-> e]))))

\* the test that ends the loop
Converged(e) == WithinTolerance(e)

\* vec = Vector3d(y(0), y(1), 1.0).normalized()
Bearing(y) == Normalized(<<y[1], y[2], S>>)

\* (theta (1 + k1 theta2 + ...) - theta_d) / (1 + 3 k1 theta2 + ...)
FisheyeThetaFix(cam, theta_d, theta) ==
  Div(Sub(EquidistThd(cam, theta), theta_d), EquidistThdTh(cam, theta))

RECURSIVE FisheyeNewton(_, _, _, _)
\* cv::fisheye::undistortPoints' Newton iteration on theta (10 steps at most)
FisheyeNewton(cam, theta_d, theta, fuel) ==
  IF fuel = 0 THEN theta
  ELSE Once(FisheyeThetaFix(cam, theta_d, theta), LAMBDA theta_fix :
       Once(Sub(theta, theta_fix), LAMBDA next :
         IF theta_fix = 0 \/ theta_fix = NaN THEN next
         ELSE FisheyeNewton(cam, theta_d, next, fuel - 1)))

\* cv::fisheye::undistortPoints(y_mat, y_mat, K, D) on one CV_32F point, with
\* K = (K_(0,0), K_(1,1), K_(0,2), K_(1,2)) and D = (k1_, k2_, k3_, k4_)
fisheyeUndistortPoints(cam, c) ==
  Once(Normalize(cam, c), LAMBDA pw :
  Once(Hypot(pw[1], pw[2]), LAMBDA norm :
  Once(IF Less(HalfPi, norm) THEN HalfPi ELSE norm, LAMBDA theta_d :
    IF theta_d = 0 THEN <<ToFloat(pw[1]), ToFloat(pw[2])>>
    ELSE Once(Div(Tan(FisheyeNewton(cam, theta_d, theta_d, 10)), theta_d), LAMBDA scale :
           <<ToFloat(Mul(pw[1], scale)), ToFloat(Mul(pw[2], scale))>>))))

\* y / sqrt(n2 r2 + n2 - r2): the closed-form inverse of the refraction
RefracInverse(y, n) ==
  Once(Add(Mul(y[1], y[1]), Mul(y[2], y[2])), LAMBDA r2 :
  Once(Mul(n, n), LAMBDA n2 :
  Once(Sqrt(Sub(Add(Mul(n2, r2), n2), r2)), LAMBDA m_undistort :
    <<Div(y[1], m_undistort), Div(y[2], m_undistort)>>)))

\* stages lists what the function applies, in order
pixelToBearingAnalytical(cam, c) ==
  Once(fisheyeUndistortPoints(cam, c), LAMBDA y :
    [ret |-> TRUE, vec |-> Bearing(RefracInverse(y, cam.refrac_ind_)),
     stages |-> <<"fisheye::undistortPoints", "refraction inverse">>])

\* a variant of the dispatch that sends EQUIREFRAC to the iterative inverse
UsesAnalyticalRefracOnly(cam) == cam.type_ = "REFRAC"

\* pixelToBearing(c, n) calls the analytic inverse for these models
UsesAnalytical(cam) == cam.type_ = "REFRAC" \/ cam.type_ = "EQUIREFRAC"

\* LWF::NormalVectorElement::setFromVector: the manifold point of a 3-vector
setFromVector(vec) == Normalized(vec)

\* ------------------------------------------------------------------------
\* Camera: construction and configuration
\* ------------------------------------------------------------------------
MaxDouble == Lim                 \* std::numeric_limits<double>::max()
IdentityK == <<<<S, 0, 0>>, <<0, S, 0>>, <<0, 0, S>>>>

\* Camera::Camera()
Camera ==
  [k1_ |-> 0, k2_ |-> 0, k3_ |-> 0, k4_ |-> 0, k5_ |-> 0, k6_ |-> 0,
   p1_ |-> 0, p2_ |-> 0, s1_ |-> 0, s2_ |-> 0, s3_ |-> 0, s4_ |-> 0,
   refrac_ind_ |-> S, K_ |-> IdentityK, type_ |-> "RADTAN",
   valid_radius_ |-> MaxDouble]

\* the yaml files: camera_matrix.data, distortion_model,
\* distortion_coefficients.data, refractive_index.data, valid_radius (0: absent)
PinholeA == <<Num(8), 0, Num(16), 0, Num(8), Num(12), 0, 0, S>>
PinholeB == <<Num(8), 0, Num(15), 0, Num(6), Num(10), 0, 0, S>>
Fisheye == <<Num(4), 0, Num(16), 0, Num(4), Num(12), 0, 0, S>>
PinholeVga == <<Num(500), 0, Num(320), 0, Num(500), Num(240), 0, 0, S>>

Yaml(model, k, d, n, vr) ==
  [distortion_model |-> model, camera_matrix |-> k, distortion_coefficients |-> d,
   refractive_index |-> n, valid_radius |-> vr]

Files ==
  { Yaml("plumb_bob", PinholeB, <<Milli(-100), Milli(10), 1000, -1000, 0>>, S, 0),
    Yaml("plumb_bob", PinholeA, <<Milli(500), Milli(-500), 0, 0, 0>>, S, 0),
    Yaml("plumb_bob", PinholeVga, <<0, 0, 0, 0, 0>>, S, 0),
    Yaml("equidistant", Fisheye, <<Milli(-10), Milli(5), 0, 0>>, S, 0),
    Yaml("ds", PinholeB, <<Milli(-200), Milli(600)>>, S, Milli(900)),
    Yaml("refractive", PinholeA, <<0, 0, 0, 0>>, Milli(1330), 0),
    Yaml("equirefractive", PinholeB, <<Milli(-10), Milli(5), 0, 0>>, Milli(1330), 0),
    Yaml("pinhole", PinholeA, <<0, 0, 0, 0, 0>>, S, 0) }

loadCameraMatrix(cam, f) ==
  [cam EXCEPT !.K_ = <<SubSeq(f.camera_matrix, 1, 3), SubSeq(f.camera_matrix, 4, 6),
                       SubSeq(f.camera_matrix, 7, 9)>>]

loadRadtan(cam, f) ==
  [loadCameraMatrix(cam, f) EXCEPT
     !.k1_ = f.distortion_coefficients[1], !.k2_ = f.distortion_coefficients[2],
     !.p1_ = f.distortion_coefficients[3], !.p2_ = f.distortion_coefficients[4],
     !.k3_ = f.distortion_coefficients[5]]

\* the assignment of refrac_ind_ is commented out (line 105)
loadRefractive(cam, f) == loadCameraMatrix(cam, f)

loadEquidist(cam, f) ==
  [loadCameraMatrix(cam, f) EXCEPT
     !.k1_ = f.distortion_coefficients[1], !.k2_ = f.distortion_coefficients[2],
     !.k3_ = f.distortion_coefficients[3], !.k4_ = f.distortion_coefficients[4]]

loadDoubleSphere(cam, f) ==
  [loadCameraMatrix(cam, f) EXCEPT
     !.k1_ = f.distortion_coefficients[1], !.k2_ = f.distortion_coefficients[2],
     !.valid_radius_ = IF f.valid_radius # 0 THEN f.valid_radius ELSE @]

load(cam, f) ==
  CASE f.distortion_model = "plumb_bob" -> loadRadtan([cam EXCEPT !.type_ = "RADTAN"], f)
    [] f.distortion_model = "refractive" -> loadRefractive([cam EXCEPT !.type_ = "REFRAC"], f)
    [] f.distortion_model = "equidistant" -> loadEquidist([cam EXCEPT !.type_ = "EQUIDIST"], f)
    [] f.distortion_model = "equirefractive" ->
         loadRefractive(loadEquidist([cam EXCEPT !.type_ = "EQUIREFRAC"], f), f)
    [] f.distortion_model = "ds" -> loadDoubleSphere([cam EXCEPT !.type_ = "DS"], f)
    [] OTHER -> cam

\* ------------------------------------------------------------------------
\* The inputs of the calls
\* ------------------------------------------------------------------------
MaxLoads == 1                    \* load() calls in one run

RefIndices == {S, Milli(1330)}
NoIndex == 0

Bearings ==
  { <<0, 0, S>>, <<Milli(300), Milli(400), S>>, <<Num(2), 0, S>>,
    <<Milli(600), Milli(800), Num(2)>>,
    <<Milli(300), Milli(400), 0>>, <<0, 0, -S>> }

\* LWF::NormalVectorElement: the unit vector and its 3x2 tangent basis
Normals ==
  { [vec |-> <<0, 0, S>>, M |-> <<<<S, 0>>, <<0, S>>, <<0, 0>>>>],
    [vec |-> <<Milli(600), 0, Milli(800)>>,
     M |-> <<<<Milli(800), 0>>, <<0, S>>, <<Milli(-600), 0>>>>],
    [vec |-> <<0, Milli(-600), Milli(-800)>>,
     M |-> <<<<S, 0>>, <<0, Milli(800)>>, <<0, Milli(-600)>>>>] }

Points == { <<0, 0>>, <<Milli(300), Milli(400)>>, <<Num(2), 0>> }

Pixels ==
  { <<Num(16), Num(12)>>, <<Num(18), Num(14)>>, <<Num(24), Num(12)>>,
    <<Num(20), Num(12)>>, <<Num(15), Num(10)>> }

\* what uninitialized storage may hold
Uninit == {0, NaN, Num(7)}

\* ------------------------------------------------------------------------
\* The state: one Camera object and the call in progress on it.
\*   cam    the Camera's data members
\*   loads  the number of load() calls made
\*   pc     "idle": no call in progress; "loop": inside the for loop of
\*          pixelToBearing(c,vec); "done": the call has returned
\*   op     the function called, arg its input arguments
\*   res    the return value and the output arguments as the call left them
\*   loc    the locals of pixelToBearing(c,vec)
\* ------------------------------------------------------------------------
VARIABLES cam, loads, distortionModel, pc, op, arg, res, loc, node, request, test

vars == <<cam, loads, distortionModel, pc, op, arg, res, loc, node, request, test>>

NoArg ==
  [in |-> <<>>, vec |-> <<>>, M |-> <<>>, c |-> <<>>, refrac_index |-> NoIndex,
   b |-> <<>>]

\* ret of a function returning void is TRUE: it returned
NoRes ==
  [ret |-> TRUE, out |-> Unwritten, c |-> Unwritten, J |-> Unwritten,
   Jdpdn |-> Unwritten, vec |-> Unwritten, n |-> Unwritten, fn |-> "none",
   path |-> "none", stages |-> <<>>, inner |-> <<>>,
   J_equi |-> Unwritten, J_refrac |-> Unwritten]

NoLoc ==
  [i |-> 0, y |-> <<>>, ybar |-> <<>>, e |-> <<>>, success |-> FALSE, bodies |-> 0,
   caller |-> "none"]

\* ------------------------------------------------------------------------
\* RovioNode: the initialization state and the reset requests
\* ------------------------------------------------------------------------
\* V3D::Zero() and the QPD a default constructor leaves
ZeroPosition == <<0, 0, 0>>
IdentityRotation == <<S, 0, 0, 0>>

\* the poses of the requests and of the health monitor's failsafe
Poses ==
  { [WrWM |-> <<S, 0, Num(2)>>, qMW |-> <<0, S, 0, 0>>],
    [WrWM |-> <<0, Num(-3), 0>>, qMW |-> <<0, 0, S, 0>>] }
NoPose == [WrWM |-> Unwritten, qMW |-> Unwritten]

\* mtState::nCam_ of the nodes built
NCams == {1, 2}

\* imu_msg->linear_acceleration
Accelerations == { <<0, 0, Milli(9810)>>, <<Milli(9810), 0, 0>> }

\* FilterInitializationState(): WrWM_ zero, state_ WaitForInitUsingAccel;
\* refractiveIndex_ is a float without initializer (u)
FilterInitializationState(u) ==
  [state_ |-> "WaitForInitUsingAccel", WrWM_ |-> ZeroPosition,
   qMW_ |-> IdentityRotation, refractiveIndex_ |-> u]

\* what mpFilter_ was reset with last
NoReset ==
  [reset |-> "none", WrWM |-> Unwritten, qMW |-> Unwritten, n |-> NoIndex,
   acc |-> Unwritten]

\* header.stamp.toSec() of the image messages, and the images they carry
\* ("unsupported": an encoding imgCallback returns on; "empty": cv_img.empty())
Stamps == {1, 2}
Images == [stamp : Stamps, image : {"frame", "empty", "unsupported"}]

\* the camera IDs of imgCallback0 .. imgCallback4
CamIDs == 0 .. 4

\* a pyr_ slot: the stamp of the image it was computed from, and whether an
\* update measurement added to the filter has carried it since
NoImage == [stamp |-> 0, used |-> FALSE]

\* the auxiliary part of imgUpdateMeas_ as constructed: no pyramid valid
ImgMeasAux(nCam) ==
  [imgTime_ |-> 0, isValidPyr_ |-> [i \in 0 .. nCam - 1 |-> FALSE],
   pyr_ |-> [i \in 0 .. nCam - 1 |-> NoImage]]

\* aux.reset(t): the time of the set is t and no pyramid is valid
reset(aux, t) ==
  [aux EXCEPT !.imgTime_ = t, !.isValidPyr_ = [i \in DOMAIN @ |-> FALSE]]

\* aux.areAllValid()
areAllValid(aux) == \A i \in DOMAIN aux.isValidPyr_ : aux.isValidPyr_[i]

\* what the handler that ran last did: the acquisitions of m_filter_, an
\* acquisition made while holding it, the measurements added to the filter,
\* the image sets they carried, the calls of updateAndPublish, and whether it
\* published and whether the health monitor asked for a reset
NoHandler ==
  [handler |-> "none", locks |-> 0, deadlock |-> FALSE, added |-> <<>>,
   images |-> <<>>, calls |-> <<>>, published |-> FALSE, healthReset |-> FALSE]

\* no RovioNode constructed: the Camera is used on its own
NoNode ==
  [init_state_ |-> "none", mpFilter_ |-> NoReset, nCam_ |-> 0,
   imgUpdateMeas_ |-> ImgMeasAux(0), baro_offset_initialized_ |-> FALSE,
   m_filter_ |-> FALSE, handled |-> NoHandler]
RovioNode(u, nCam) ==
  [init_state_ |-> FilterInitializationState(u), mpFilter_ |-> NoReset,
   nCam_ |-> nCam, imgUpdateMeas_ |-> ImgMeasAux(nCam),
   baro_offset_initialized_ |-> FALSE, m_filter_ |-> FALSE,
   handled |-> NoHandler]

\* the last request made of the node and whether the filter was Initialized
\* when it arrived
NoRequest ==
  [kind |-> "none", WrWM |-> Unwritten, qMW |-> Unwritten, n |-> NoIndex,
   initialized |-> FALSE]

isInitialized(init_state) == init_state.state_ = "Initialized"

\* a variant of the requests' guard that ignores none
IgnoredNever(init_state) == FALSE

\* if (!init_state_.isInitialized()) { ...Ignoring request...; return; }
Ignored(init_state) == ~isInitialized(init_state)

requestReset(init_state) ==
  IF Ignored(init_state) THEN init_state
  ELSE [init_state EXCEPT !.state_ = "WaitForInitUsingAccel"]

requestResetToPose(init_state, WrWM, qMW) ==
  IF Ignored(init_state) THEN init_state
  ELSE [init_state EXCEPT !.WrWM_ = WrWM, !.qMW_ = qMW,
                          !.state_ = "WaitForInitExternalPose"]

\* refractiveIndex_ is a float: the double n is converted
requestResetRefractiveIndex(init_state, n) ==
  IF Ignored(init_state) THEN init_state
  ELSE [init_state EXCEPT !.refractiveIndex_ = ToFloat(n),
                          !.state_ = "WaitForInitRefractiveIndex"]

\* a variant of the switch that takes the accelerometer whatever is pending
resetAlwaysWithAccelerometer(init_state, acc) ==
  [NoReset EXCEPT !.reset = "resetWithAccelerometer", !.acc = acc]

\* the switch of imuCallback on init_state_.state_ (the default case, abort(),
\* is taken by no value of the enum that is not Initialized)
resetFilter(init_state, acc) ==
  CASE init_state.state_ = "WaitForInitExternalPose" ->
         [NoReset EXCEPT !.reset = "resetWithPose", !.WrWM = init_state.WrWM_,
                         !.qMW = init_state.qMW_]
    [] init_state.state_ = "WaitForInitUsingAccel" ->
         [NoReset EXCEPT !.reset = "resetWithAccelerometer", !.acc = acc]
    [] init_state.state_ = "WaitForInitRefractiveIndex" ->
         [NoReset EXCEPT !.reset = "resetWithRefractiveIndex",
                         !.n = init_state.refractiveIndex_]

\* the end of updateAndPublish: if shouldResetEstimator, the failsafe pose is
\* buffered and an initialization with it is pending (failsafe = NoPose: the
\* health check is off or asks for nothing)
healthCheck(init_state, failsafe) ==
  IF failsafe = NoPose \/ ~isInitialized(init_state) THEN init_state
  ELSE [init_state EXCEPT !.WrWM_ = failsafe.WrWM, !.qMW_ = failsafe.qMW,
                          !.state_ = "WaitForInitExternalPose"]

\* the handler name starts executing on the node
Enter(self, name) == [self EXCEPT !.handled = [NoHandler EXCEPT !.handler = name]]

\* std::lock_guard<std::mutex> lock(m_filter_) and the scope Body it guards:
\* acquiring the mutex the thread already holds never returns
lock_guard(self, Body(_)) ==
  IF self.m_filter_ THEN [self EXCEPT !.handled.deadlock = TRUE]
  ELSE Once(Body([self EXCEPT !.m_filter_ = TRUE, !.handled.locks = @ + 1]),
            LAMBDA s : IF s.handled.deadlock THEN s
                       ELSE [s EXCEPT !.m_filter_ = FALSE])

\* mpFilter_->addPredictionMeas / addUpdateMeas<i>
addMeas(self, kind) == [self EXCEPT !.handled.added = Append(@, kind)]

\* a variant of the health monitor's reset that goes through
\* requestResetToPose, which takes m_filter_
healthMonitorByRequest(self, failsafe) ==
  IF failsafe = NoPose THEN self
  ELSE lock_guard([self EXCEPT !.handled.healthReset = TRUE],
                  LAMBDA s : [s EXCEPT !.init_state_ =
                                requestResetToPose(@, failsafe.WrWM, failsafe.qMW)])

\* if(mpImgUpdate_->healthCheck_) if(shouldResetEstimator) ...: init_state_
\* is written in place
healthMonitor(self, failsafe) ==
  IF failsafe = NoPose THEN self
  ELSE [self EXCEPT !.init_state_ = healthCheck(@, failsafe),
                    !.handled.healthReset = TRUE]

\* a variant of updateAndPublish that publishes whatever doPublish is
updateAndPublishAlways(self, doPublish, advanced, failsafe) ==
  IF ~isInitialized(self.init_state_) THEN self
  ELSE IF advanced
       THEN healthMonitor(
              [self EXCEPT !.handled.calls =
                             Append(@, [doPublish |-> doPublish, advanced |-> advanced]),
                           !.handled.published = TRUE], failsafe)
       ELSE [self EXCEPT !.handled.calls =
                           Append(@, [doPublish |-> doPublish, advanced |-> advanced])]

\* updateAndPublish(doPublish): with the filter initialized the update runs
\* (advanced: safe_.t_ > oldSafeTime after it); if the safe time advanced and
\* doPublish, the outputs are published and the health monitor is asked
updateAndPublish(self, doPublish, advanced, failsafe) ==
  IF ~isInitialized(self.init_state_) THEN self
  ELSE IF advanced /\ doPublish
       THEN healthMonitor(
              [self EXCEPT !.handled.calls =
                             Append(@, [doPublish |-> doPublish, advanced |-> advanced]),
                           !.handled.published = TRUE], failsafe)
       ELSE [self EXCEPT !.handled.calls =
                           Append(@, [doPublish |-> doPublish, advanced |-> advanced])]

\* a variant of the initialization that leaves the pending state
InitializePending(self, acc) ==
  [self EXCEPT !.mpFilter_ = resetFilter(self.init_state_, acc)]

\* the else branch of imuCallback: the pending reset, then state_ = Initialized
Initialize(self, acc) ==
  [self EXCEPT !.mpFilter_ = resetFilter(self.init_state_, acc),
               !.init_state_.state_ = "Initialized"]

\* a variant of the body of imuCallback that adds the prediction measurement
\* before looking at init_state_
imuAddsAlways(self, acc, advanced, failsafe) ==
  IF isInitialized(self.init_state_)
  THEN updateAndPublish(addMeas(self, "prediction"), TRUE, advanced, failsafe)
  ELSE Initialize(addMeas(self, "prediction"), acc)

\* the body of imuCallback
imu(self, acc, advanced, failsafe) ==
  IF isInitialized(self.init_state_)
  THEN updateAndPublish(addMeas(self, "prediction"), TRUE, advanced, failsafe)
  ELSE Initialize(self, acc)

\* a variant of the storing of an image that keeps the set whatever the stamp
storeImageKeeping(aux, camID, stamp) ==
  [aux EXCEPT !.pyr_[camID] = [stamp |-> stamp, used |-> FALSE],
              !.isValidPyr_[camID] = TRUE]

\* if(msgTime != imgTime_) reset(msgTime); pyr_[camID].computeFromImage;
\* isValidPyr_[camID] = true
storeImage(aux, camID, stamp) ==
  [(IF stamp # aux.imgTime_ THEN reset(aux, stamp) ELSE aux)
     EXCEPT !.pyr_[camID] = [stamp |-> stamp, used |-> FALSE],
            !.isValidPyr_[camID] = TRUE]

\* the measurement added carries every pyramid of the set
Carried(aux) == [aux EXCEPT !.pyr_ = [i \in DOMAIN @ |-> [@[i] EXCEPT !.used = TRUE]]]

\* the body of imgCallback(img, camID)
img(self, camID, image, advanced, failsafe) ==
  IF image.image = "unsupported" THEN self
  ELSE IF isInitialized(self.init_state_) /\ image.image # "empty"
  THEN Once(storeImage(self.imgUpdateMeas_, camID, image.stamp),
            LAMBDA aux :
              IF areAllValid(aux)
              THEN updateAndPublish(
                     addMeas([self EXCEPT !.imgUpdateMeas_ = reset(Carried(aux), image.stamp),
                                          !.handled.images = Append(@, aux)], "img"),
                     TRUE, advanced, failsafe)
              ELSE [self EXCEPT !.imgUpdateMeas_ = aux])
  ELSE self

\* the body of groundtruthCallback and of groundtruthOdometryCallback
groundtruth(self, advanced, failsafe) ==
  IF isInitialized(self.init_state_)
  THEN updateAndPublish(addMeas(self, "pose"), TRUE, advanced, failsafe)
  ELSE self

\* the body of velocityCallback
velocity(self, advanced, failsafe) ==
  IF isInitialized(self.init_state_)
  THEN updateAndPublish(addMeas(self, "velocity"), FALSE, advanced, failsafe)
  ELSE self

\* the body of baroCallback: the first message handled only sets the offset
baro(self, advanced, failsafe) ==
  IF ~isInitialized(self.init_state_) THEN self
  ELSE IF ~self.baro_offset_initialized_
  THEN [self EXCEPT !.baro_offset_initialized_ = TRUE]
  ELSE updateAndPublish(addMeas(self, "baro"), FALSE, advanced, failsafe)

\* state.updateRefIndex(&mpFilter_->multiCamera_) in the publishing block
\* writes the index n of the state to the camera
Published(self, camera, n) ==
  IF self.handled.published THEN [camera EXCEPT !.refrac_ind_ = n] ELSE camera

\* ------------------------------------------------------------------------
\* Camera::testCameraModel
\* ------------------------------------------------------------------------
\* the locals of testCameraModel: the seed s, the seeds setRandom was called
\* with, and b_s, p_s and the return value of pixelToBearing(p_s,b_e)
NoTest ==
  [s |-> 0, seeds |-> {}, b_s |-> Unwritten, p_s |-> Unwritten, inverted |-> FALSE]

\* b_s after line 778: a random unit vector whose third component is not
\* negative
TestNormals == {n \in Normals : ~Less(n.vec[3], 0)}

\* b_s.setRandom(s): s is taken by reference and incremented
setRandom(s) == s + 1

\* a variant of the for condition that lets the seed 10 pass: s <= 10
SeedConditionInclusive(s) == s <= 10

\* for(unsigned int s = 1; s<10;)
SeedCondition(s) == s < 10

Init ==
  /\ cam = Camera
  /\ loads = 0
  /\ distortionModel = "none"
  /\ pc = "idle"
  /\ op = "none"
  /\ arg = NoArg
  /\ res = NoRes
  /\ loc = NoLoc
  /\ node = NoNode
  /\ request = NoRequest
  /\ test = NoTest

\* Camera::load(filename)
Load(f) ==
  /\ pc = "idle"
  /\ loads < MaxLoads
  /\ cam' = load(cam, f)
  /\ distortionModel' = f.distortion_model
  /\ loads' = loads + 1
  /\ UNCHANGED <<pc, op, arg, res, loc, node, request, test>>

\* state.updateRefIndex(&multiCamera_): the filter writes the public member
updateRefIndex(n) ==
  /\ pc = "idle"
  /\ cam.refrac_ind_ # n
  /\ cam' = [cam EXCEPT !.refrac_ind_ = n]
  /\ UNCHANGED <<loads, distortionModel, pc, op, arg, res, loc, node, request, test>>

DistortRes(d) ==
  Once(d, LAMBDA v : [NoRes EXCEPT !.out = v.out, !.fn = v.fn, !.path = v.path])
DistortResJ(d) ==
  Once(d, LAMBDA v : [NoRes EXCEPT !.out = v.out, !.J = v.J, !.fn = v.fn,
                                   !.path = v.path])
ProjectRes(r) ==
  Once(r, LAMBDA v : [NoRes EXCEPT !.ret = v.ret, !.c = v.c, !.J = v.J,
                                   !.Jdpdn = v.Jdpdn, !.fn = v.fn, !.path = v.path])
InverseRes(a, inner) ==
  Once(a, LAMBDA v : [NoRes EXCEPT !.ret = v.ret, !.vec = v.vec, !.stages = v.stages,
                                   !.inner = inner])

\* a call that runs to its return in one step: r is what it returns and writes
Finish(name, a, r) ==
  /\ pc' = "done"
  /\ op' = name
  /\ arg' = a
  /\ res' = r
  /\ UNCHANGED <<cam, loads, distortionModel, loc, node, request, test>>

CallDistort(in) ==
  /\ pc = "idle"
  /\ Finish("distort(in,out)",
            [NoArg EXCEPT !.in = in],
            DistortRes(distort(cam, in)))

CallDistort_n(in, n) ==
  /\ pc = "idle"
  /\ Finish("distort(in,out,refrac_index)",
            [NoArg EXCEPT !.in = in, !.refrac_index = n],
            DistortRes(distort_n(cam, in, n)))

CallDistort_J(in) ==
  /\ pc = "idle"
  /\ Finish("distort(in,out,J)",
            [NoArg EXCEPT !.in = in],
            DistortResJ(distort_J(cam, in)))

CallDistort_nJ(in, n) ==
  /\ pc = "idle"
  /\ Finish("distort(in,out,refrac_index,J)",
            [NoArg EXCEPT !.in = in, !.refrac_index = n],
            DistortResJ(distort_nJ(cam, in, n)))

CallDistortEquidist(in) ==
  /\ pc = "idle"
  /\ Finish("distortEquidist(in,out)",
            [NoArg EXCEPT !.in = in],
            DistortRes(Called(distortEquidist(cam, in), "distortEquidist(in,out)")))

CallDistortEquidist_J(in) ==
  /\ pc = "idle"
  /\ Finish("distortEquidist(in,out,J)",
            [NoArg EXCEPT !.in = in],
            DistortResJ(CalledJ(distortEquidist_J(cam, in), "distortEquidist(in,out,J)")))

CallDistortDoubleSphere(in) ==
  /\ pc = "idle"
  /\ Finish("distortDoubleSphere(in,out)",
            [NoArg EXCEPT !.in = in],
            DistortRes(Called(distortDoubleSphere(cam, in), "distortDoubleSphere(in,out)")))

CallDistortDoubleSphere_J(in) ==
  /\ pc = "idle"
  /\ Finish("distortDoubleSphere(in,out,J)",
            [NoArg EXCEPT !.in = in],
            DistortResJ(CalledJ(distortDoubleSphere_J(cam, in),
                               "distortDoubleSphere(in,out,J)")))

CallDistortEquiRefractive_JJ(in) ==
  /\ pc = "idle"
  /\ Finish("distortEquiRefractive(in,out,J_equi,J_refrac)",
            [NoArg EXCEPT !.in = in],
            Once(distortEquiRefractive_JJ(cam, in), LAMBDA d :
              [NoRes EXCEPT !.out = d.out, !.J_equi = d.J_equi,
                            !.J_refrac = d.J_refrac, !.path = d.path,
                            !.fn = "distortEquiRefractive(in,out,J_equi,J_refrac)"]))

CallBearingToPixel(vec) ==
  /\ pc = "idle"
  /\ Finish("bearingToPixel(vec,c)",
            [NoArg EXCEPT !.vec = vec],
            ProjectRes(bearingToPixel(cam, vec)))

CallBearingToPixel_n(vec, n) ==
  /\ pc = "idle"
  /\ Finish("bearingToPixel(vec,c,refrac_index)",
            [NoArg EXCEPT !.vec = vec, !.refrac_index = n],
            ProjectRes(bearingToPixel_n(cam, vec, n)))

CallBearingToPixel_J(vec) ==
  /\ pc = "idle"
  /\ Finish("bearingToPixel(vec,c,J)",
            [NoArg EXCEPT !.vec = vec],
            ProjectRes(bearingToPixel_J(cam, vec)))

CallBearingToPixel_nJ(vec, n) ==
  /\ pc = "idle"
  /\ Finish("bearingToPixel(vec,c,J,refrac_index)",
            [NoArg EXCEPT !.vec = vec, !.refrac_index = n],
            ProjectRes(bearingToPixel_nJ(cam, vec, n)))

CallBearingToPixel_JJdpdn(vec, n, u) ==
  /\ pc = "idle"
  /\ Finish("bearingToPixel(vec,c,J,Jdpdn,refrac_index)",
            [NoArg EXCEPT !.vec = vec, !.refrac_index = n],
            ProjectRes(bearingToPixel_JJdpdn(cam, vec, n, u)))

CallBearingToPixel_N(n) ==
  /\ pc = "idle"
  /\ Finish("bearingToPixel(n,c)",
            [NoArg EXCEPT !.vec = n.vec, !.M = n.M],
            ProjectRes(bearingToPixel_N(cam, n)))

CallBearingToPixel_N_n(n, ri) ==
  /\ pc = "idle"
  /\ Finish("bearingToPixel(n,c,refrac_index)",
            [NoArg EXCEPT !.vec = n.vec, !.M = n.M, !.refrac_index = ri],
            ProjectRes(bearingToPixel_N_n(cam, n, ri)))

CallBearingToPixel_N_J(n, u) ==
  /\ pc = "idle"
  /\ Finish("bearingToPixel(n,c,J)",
            [NoArg EXCEPT !.vec = n.vec, !.M = n.M],
            ProjectRes(bearingToPixel_N_J(cam, n, u)))

CallBearingToPixel_N_nJ(n, ri, u) ==
  /\ pc = "idle"
  /\ Finish("bearingToPixel(n,c,J,refrac_index)",
            [NoArg EXCEPT !.vec = n.vec, !.M = n.M, !.refrac_index = ri],
            ProjectRes(bearingToPixel_N_nJ(cam, n, ri, u)))

CallBearingToPixel_N_JJdpdn(n, ri, u) ==
  /\ pc = "idle"
  /\ Finish("bearingToPixel(n,c,J,Jdpdn,refrac_index)",
            [NoArg EXCEPT !.vec = n.vec, !.M = n.M, !.refrac_index = ri],
            ProjectRes(bearingToPixel_N_JJdpdn(cam, n, ri, u)))

\* the analytic inverse is called under the models pixelToBearing(c,n) calls
\* it for (line 745)
CallPixelToBearingAnalytical(c) ==
  /\ pc = "idle"
  /\ UsesAnalytical(cam)
  /\ Finish("pixelToBearingAnalytical(c,vec)",
            [NoArg EXCEPT !.c = c],
            InverseRes(pixelToBearingAnalytical(cam, c), <<>>))

\* pixelToBearing(c,vec) up to the for loop: y, ybar = y, success = false
LoopEntry(camera, c, caller) ==
  Once(Normalize(camera, c), LAMBDA y : [NoLoc EXCEPT !.y = y, !.ybar = y, !.caller = caller])

EnterLoop(name, a, caller) ==
  /\ pc' = "loop"
  /\ op' = name
  /\ arg' = a
  /\ res' = IF caller = "none" THEN NoRes
            ELSE [NoRes EXCEPT !.inner = <<"pixelToBearing(c,vec)">>]
  /\ loc' = LoopEntry(cam, a.c, caller)
  /\ UNCHANGED <<cam, loads, distortionModel, node, request, test>>

CallPixelToBearing(c) ==
  /\ pc = "idle"
  /\ EnterLoop("pixelToBearing(c,vec)", [NoArg EXCEPT !.c = c], "none")

\* pixelToBearing(c,n) calls the analytic inverse and n.setFromVector(vec)
AnalyticalOnManifold(camera, c) ==
  Once(pixelToBearingAnalytical(camera, c), LAMBDA a :
    [NoRes EXCEPT !.ret = a.ret, !.n = setFromVector(a.vec), !.stages = a.stages,
                  !.inner = <<"pixelToBearingAnalytical(c,vec)">>])

\* pixelToBearing(c,n): the analytic inverse runs to its return, the iterative
\* one enters its loop; b is the bearing c was projected from, if any
pixelToBearing_N(c, b) ==
  IF UsesAnalytical(cam)
  THEN /\ pc' = "done"
       /\ op' = "pixelToBearing(c,n)"
       /\ arg' = [NoArg EXCEPT !.c = c, !.b = b]
       /\ res' = AnalyticalOnManifold(cam, c)
       /\ UNCHANGED <<cam, loads, distortionModel, loc, node, request, test>>
  ELSE EnterLoop("pixelToBearing(c,n)", [NoArg EXCEPT !.c = c, !.b = b],
                 "pixelToBearing(c,n)")

CallPixelToBearing_N(c) ==
  /\ pc = "idle"
  /\ pixelToBearing_N(c, <<>>)

\* a variant of the loop condition that allows one more pass: i <= max_iter
LoopConditionInclusive(i) == i <= max_iter

\* i < max_iter
LoopCondition(i) == i < max_iter

\* one execution of the loop body: break on e.dot(e) <= tolerance, i++ otherwise
LoopStep(camera, l) ==
  Once(GaussNewton(camera, l.y, l.ybar), LAMBDA g :
    [l EXCEPT !.ybar = g.ybar, !.e = g.e, !.bodies = @ + 1,
              !.success = Converged(g.e),
              !.i = IF Converged(g.e) THEN @ ELSE @ + 1])

LoopBody ==
  /\ pc = "loop"
  /\ ~loc.success
  /\ LoopCondition(loc.i)
  /\ loc' = LoopStep(cam, loc)
  /\ UNCHANGED <<cam, loads, distortionModel, pc, op, arg, res, node, request, test>>

\* what pixelToBearing(c,vec) leaves in vec: written only if(success)
WrittenVec(success, ybar) == IF success THEN Bearing(ybar) ELSE Unwritten

\* after the loop: if(success) vec = ...; return success.  In pixelToBearing(c,n)
\* vec is a local without initializer (u), and n.setFromVector(vec) follows.
LoopExit(l, u) ==
  Once(WrittenVec(l.success, l.ybar), LAMBDA written :
    IF l.caller = "none"
    THEN [NoRes EXCEPT !.ret = l.success, !.vec = written]
    ELSE [NoRes EXCEPT !.ret = l.success, !.inner = <<"pixelToBearing(c,vec)">>,
                       !.n = setFromVector(IF written = Unwritten THEN Uninit3(u)
                                           ELSE written)])

AfterLoop(u) ==
  /\ pc = "loop"
  /\ loc.success \/ ~LoopCondition(loc.i)
  /\ pc' = "done"
  /\ res' = LoopExit(loc, u)
  /\ UNCHANGED <<cam, loads, distortionModel, op, arg, loc, node, request, test>>

\* testCameraModel: bearingToPixel(b_s,p_s,J1); pixelToBearing(p_s,b_e);
RoundTrip ==
  /\ pc = "done"
  /\ op = "bearingToPixel(n,c,J)"
  /\ res.ret
  /\ pixelToBearing_N(res.c, arg.vec)

\* the caller takes the result
Return ==
  /\ pc = "done"
  /\ pc' = "idle"
  /\ op' = "none"
  /\ arg' = NoArg
  /\ res' = NoRes
  /\ loc' = NoLoc
  /\ test' = NoTest
  /\ UNCHANGED <<cam, loads, distortionModel, node, request>>

RECURSIVE RunLoop(_, _)
\* the for loop of pixelToBearing(c,vec) from its entry to its exit
RunLoop(camera, l) ==
  IF l.success \/ ~LoopCondition(l.i) THEN l
  ELSE RunLoop(camera, LoopStep(camera, l))

\* the return value of pixelToBearing(c,n)
InverseReturn(camera, c) ==
  IF UsesAnalytical(camera) THEN pixelToBearingAnalytical(camera, c).ret
  ELSE RunLoop(camera, LoopEntry(camera, c, "pixelToBearing(c,n)")).success

\* one pass of the body: setRandom, bearingToPixel(b_s,p_s,J1),
\* pixelToBearing(p_s,b_e); the finite differences that follow write locals
\* that are printed and nothing else
TestPass(camera, t, b_s, u) ==
  Once(bearingToPixel_N_J(camera, b_s, u), LAMBDA forward :
    [s |-> setRandom(t.s), seeds |-> t.seeds \cup {t.s}, b_s |-> b_s.vec,
     p_s |-> forward.c, inverted |-> InverseReturn(camera, forward.c)])

\* testCameraModel() is called: the declarations and s = 1
CallTestCameraModel ==
  /\ pc = "idle"
  /\ pc' = "test"
  /\ op' = "testCameraModel()"
  /\ test' = [NoTest EXCEPT !.s = 1]
  /\ UNCHANGED <<cam, loads, distortionModel, arg, res, loc, node, request>>

\* one pass of the for loop
TestBody(b_s, u) ==
  /\ pc = "test"
  /\ SeedCondition(test.s)
  /\ test' = TestPass(cam, test, b_s, u)
  /\ UNCHANGED <<cam, loads, distortionModel, pc, op, arg, res, loc, node, request>>

\* the for condition is false: testCameraModel returns
TestReturn ==
  /\ pc = "test"
  /\ ~SeedCondition(test.s)
  /\ pc' = "done"
  /\ UNCHANGED <<cam, loads, distortionModel, op, arg, res, loc, node, request, test>>

\* ------------------------------------------------------------------------
\* RovioNode: the handlers; each holds m_filter_ from entry to return
\* ------------------------------------------------------------------------
NodeInit ==
  /\ cam = Camera
  /\ loads = 0
  /\ distortionModel = "none"
  /\ pc = "idle"
  /\ op = "none"
  /\ arg = NoArg
  /\ res = NoRes
  /\ loc = NoLoc
  /\ node \in {RovioNode(u, 1) : u \in Uninit}
  /\ request = NoRequest
  /\ test = NoTest

CallRequestReset ==
  /\ ~node.m_filter_
  /\ node' = lock_guard(Enter(node, "requestReset"),
                        LAMBDA s : [s EXCEPT !.init_state_ = requestReset(@)])
  /\ request' = [NoRequest EXCEPT !.kind = "requestReset",
                                  !.initialized = isInitialized(node.init_state_)]
  /\ UNCHANGED <<cam, loads, distortionModel, pc, op, arg, res, loc, test>>

CallRequestResetToPose(pose) ==
  /\ ~node.m_filter_
  /\ node' = lock_guard(Enter(node, "requestResetToPose"),
                        LAMBDA s : [s EXCEPT !.init_state_ =
                                      requestResetToPose(@, pose.WrWM, pose.qMW)])
  /\ request' = [NoRequest EXCEPT !.kind = "requestResetToPose",
                                  !.WrWM = pose.WrWM, !.qMW = pose.qMW,
                                  !.initialized = isInitialized(node.init_state_)]
  /\ UNCHANGED <<cam, loads, distortionModel, pc, op, arg, res, loc, test>>

CallRequestResetRefractiveIndex(n) ==
  /\ ~node.m_filter_
  /\ node' = lock_guard(Enter(node, "requestResetRefractiveIndex"),
                        LAMBDA s : [s EXCEPT !.init_state_ =
                                      requestResetRefractiveIndex(@, n)])
  /\ request' = [NoRequest EXCEPT !.kind = "requestResetRefractiveIndex", !.n = n,
                                  !.initialized = isInitialized(node.init_state_)]
  /\ UNCHANGED <<cam, loads, distortionModel, pc, op, arg, res, loc, test>>

\* imuCallback: a prediction measurement and updateAndPublish() if the filter
\* is initialized, else the pending reset and state_ = Initialized
imuCallback(acc, updated, n, failsafe) ==
  /\ ~node.m_filter_
  /\ node' = lock_guard(Enter(node, "imuCallback"),
                        LAMBDA s : imu(s, acc, updated, failsafe))
  /\ cam' = Published(node', cam, n)
  /\ request' = IF isInitialized(node.init_state_) THEN request ELSE NoRequest
  /\ UNCHANGED <<loads, distortionModel, pc, op, arg, res, loc, test>>

\* imgCallback0 .. imgCallback4: imgCallback(img, camID) if nCam_ > camID
imgCallbackN(camID, image, updated, n, failsafe) ==
  /\ ~node.m_filter_
  /\ node' = lock_guard(Enter(node, "imgCallback"),
                        LAMBDA s : IF s.nCam_ > camID
                                   THEN img(s, camID, image, updated, failsafe)
                                   ELSE s)
  /\ cam' = Published(node', cam, n)
  /\ UNCHANGED <<loads, distortionModel, pc, op, arg, res, loc, request, test>>

groundtruthCallback(updated, n, failsafe) ==
  /\ ~node.m_filter_
  /\ node' = lock_guard(Enter(node, "groundtruthCallback"),
                        LAMBDA s : groundtruth(s, updated, failsafe))
  /\ cam' = Published(node', cam, n)
  /\ UNCHANGED <<loads, distortionModel, pc, op, arg, res, loc, request, test>>

groundtruthOdometryCallback(updated, n, failsafe) ==
  /\ ~node.m_filter_
  /\ node' = lock_guard(Enter(node, "groundtruthOdometryCallback"),
                        LAMBDA s : groundtruth(s, updated, failsafe))
  /\ cam' = Published(node', cam, n)
  /\ UNCHANGED <<loads, distortionModel, pc, op, arg, res, loc, request, test>>

velocityCallback(updated, n, failsafe) ==
  /\ ~node.m_filter_
  /\ node' = lock_guard(Enter(node, "velocityCallback"),
                        LAMBDA s : velocity(s, updated, failsafe))
  /\ cam' = Published(node', cam, n)
  /\ UNCHANGED <<loads, distortionModel, pc, op, arg, res, loc, request, test>>

baroCallback(updated, n, failsafe) ==
  /\ ~node.m_filter_
  /\ node' = lock_guard(Enter(node, "baroCallback"),
                        LAMBDA s : baro(s, updated, failsafe))
  /\ cam' = Published(node', cam, n)
  /\ UNCHANGED <<loads, distortionModel, pc, op, arg, res, loc, request, test>>

Next ==
  \/ \E f \in Files : Load(f)
  \/ \E n \in RefIndices : updateRefIndex(n)
  \/ \E in \in Points : CallDistort(in)
  \/ \E in \in Points, n \in RefIndices : CallDistort_n(in, n)
  \/ \E in \in Points : CallDistort_J(in)
  \/ \E in \in Points, n \in RefIndices : CallDistort_nJ(in, n)
  \/ \E in \in Points : CallDistortEquidist(in)
  \/ \E in \in Points : CallDistortEquidist_J(in)
  \/ \E in \in Points : CallDistortDoubleSphere(in)
  \/ \E in \in Points : CallDistortDoubleSphere_J(in)
  \/ \E in \in Points : CallDistortEquiRefractive_JJ(in)
  \/ \E vec \in Bearings : CallBearingToPixel(vec)
  \/ \E vec \in Bearings, n \in RefIndices : CallBearingToPixel_n(vec, n)
  \/ \E vec \in Bearings : CallBearingToPixel_J(vec)
  \/ \E vec \in Bearings, n \in RefIndices : CallBearingToPixel_nJ(vec, n)
  \/ \E vec \in Bearings, n \in RefIndices, u \in Uninit :
       CallBearingToPixel_JJdpdn(vec, n, u)
  \/ \E n \in Normals : CallBearingToPixel_N(n)
  \/ \E n \in Normals, ri \in RefIndices : CallBearingToPixel_N_n(n, ri)
  \/ \E n \in Normals, u \in Uninit : CallBearingToPixel_N_J(n, u)
  \/ \E n \in Normals, ri \in RefIndices, u \in Uninit : CallBearingToPixel_N_nJ(n, ri, u)
  \/ \E n \in Normals, ri \in RefIndices, u \in Uninit :
       CallBearingToPixel_N_JJdpdn(n, ri, u)
  \/ \E c \in Pixels : CallPixelToBearingAnalytical(c)
  \/ \E c \in Pixels : CallPixelToBearing(c)
  \/ \E c \in Pixels : CallPixelToBearing_N(c)
  \/ LoopBody
  \/ \E u \in Uninit : AfterLoop(u)
  \/ RoundTrip
  \/ CallTestCameraModel
  \/ \E b_s \in TestNormals, u \in Uninit : TestBody(b_s, u)
  \/ TestReturn
  \/ Return

Spec == Init /\ [][Next]_vars

\* a call in progress runs on: the loop and the return are sequential code
FairSpec == Spec /\ WF_vars(LoopBody) /\ WF_vars(\E u \in Uninit : AfterLoop(u))
\* testCameraModel runs on: the loop and the return are sequential code
FairTestSpec ==
  /\ Spec
  /\ WF_vars(\E b_s \in TestNormals, u \in Uninit : TestBody(b_s, u))
  /\ WF_vars(TestReturn)

\* type_ is a public member of Camera: a value of ModelType outside the five
\* enumerators, written by a cast
OutOfRangeTag == "static_cast<ModelType>(5)"

\* the four distort overloads on a configured camera, whatever its tag
DispatchInit ==
  /\ \E f \in Files :
       /\ cam \in {load(Camera, f), [load(Camera, f) EXCEPT !.type_ = OutOfRangeTag]}
       /\ distortionModel = f.distortion_model
  /\ loads = MaxLoads
  /\ pc = "idle"
  /\ op = "none"
  /\ arg = NoArg
  /\ res = NoRes
  /\ loc = NoLoc
  /\ node = NoNode
  /\ request = NoRequest
  /\ test = NoTest

DispatchNext ==
  \/ \E n \in RefIndices : updateRefIndex(n)
  \/ \E in \in Points : CallDistort(in)
  \/ \E in \in Points, n \in RefIndices : CallDistort_n(in, n)
  \/ \E in \in Points : CallDistort_J(in)
  \/ \E in \in Points, n \in RefIndices : CallDistort_nJ(in, n)
  \/ Return

DispatchSpec == DispatchInit /\ [][DispatchNext]_vars

\* the reset requests, the IMU messages and the frames of a node with one camera
NodeNext ==
  \/ CallRequestReset
  \/ \E pose \in Poses : CallRequestResetToPose(pose)
  \/ \E n \in RefIndices : CallRequestResetRefractiveIndex(n)
  \/ \E acc \in Accelerations, updated \in BOOLEAN, n \in RefIndices,
        failsafe \in Poses \cup {NoPose} : imuCallback(acc, updated, n, failsafe)
  \/ \E updated \in BOOLEAN, n \in RefIndices, failsafe \in Poses \cup {NoPose} :
        imgCallbackN(0, [stamp |-> 1, image |-> "frame"], updated, n, failsafe)

NodeSpec == NodeInit /\ [][NodeNext]_vars

\* every subscriber and every request of nodes with one and with two cameras;
\* one acceleration, one index and one failsafe pose
Gravity == <<0, 0, Milli(9810)>>
Failsafe == [WrWM |-> <<S, 0, Num(2)>>, qMW |-> <<0, S, 0, 0>>]

MeasInit ==
  /\ cam = Camera
  /\ loads = 0
  /\ distortionModel = "none"
  /\ pc = "idle"
  /\ op = "none"
  /\ arg = NoArg
  /\ res = NoRes
  /\ loc = NoLoc
  /\ node \in {RovioNode(0, nCam) : nCam \in NCams}
  /\ request = NoRequest
  /\ test = NoTest

MeasNext ==
  \/ CallRequestReset
  \/ CallRequestResetToPose(Failsafe)
  \/ CallRequestResetRefractiveIndex(Milli(1330))
  \/ \E updated \in BOOLEAN, failsafe \in {Failsafe, NoPose} :
        imuCallback(Gravity, updated, S, failsafe)
  \/ \E camID \in CamIDs, image \in Images, updated \in BOOLEAN,
        failsafe \in {Failsafe, NoPose} :
        imgCallbackN(camID, image, updated, S, failsafe)
  \/ \E updated \in BOOLEAN, failsafe \in {Failsafe, NoPose} :
        groundtruthCallback(updated, S, failsafe)
  \/ \E updated \in BOOLEAN, failsafe \in {Failsafe, NoPose} :
        groundtruthOdometryCallback(updated, S, failsafe)
  \/ \E updated \in BOOLEAN, failsafe \in {Failsafe, NoPose} :
        velocityCallback(updated, S, failsafe)
  \/ \E updated \in BOOLEAN, failsafe \in {Failsafe, NoPose} :
        baroCallback(updated, S, failsafe)

MeasSpec == MeasInit /\ [][MeasNext]_vars

\* a node with one camera whose frames carry one stamp, with every subscriber
\* and every request, and IMU messages that keep arriving
FairNodeInit ==
  /\ cam = Camera
  /\ loads = 0
  /\ distortionModel = "none"
  /\ pc = "idle"
  /\ op = "none"
  /\ arg = NoArg
  /\ res = NoRes
  /\ loc = NoLoc
  /\ node = RovioNode(0, 1)
  /\ request = NoRequest
  /\ test = NoTest

FairNodeNext ==
  \/ CallRequestReset
  \/ CallRequestResetToPose(Failsafe)
  \/ CallRequestResetRefractiveIndex(Milli(1330))
  \/ \E updated \in BOOLEAN, failsafe \in {Failsafe, NoPose} :
        imuCallback(Gravity, updated, S, failsafe)
  \/ \E updated \in BOOLEAN, failsafe \in {Failsafe, NoPose} :
        imgCallbackN(0, [stamp |-> 1, image |-> "frame"], updated, S, failsafe)
  \/ \E updated \in BOOLEAN, failsafe \in {Failsafe, NoPose} :
        groundtruthCallback(updated, S, failsafe)
  \/ \E updated \in BOOLEAN, failsafe \in {Failsafe, NoPose} :
        groundtruthOdometryCallback(updated, S, failsafe)
  \/ \E updated \in BOOLEAN, failsafe \in {Failsafe, NoPose} :
        velocityCallback(updated, S, failsafe)
  \/ \E updated \in BOOLEAN, failsafe \in {Failsafe, NoPose} :
        baroCallback(updated, S, failsafe)

\* IMU messages keep arriving: an IMU message that is waiting is handled
ImuArrives ==
  \E updated \in BOOLEAN, failsafe \in {Failsafe, NoPose} :
    imuCallback(Gravity, updated, S, failsafe)

FairNodeSpec == FairNodeInit /\ [][FairNodeNext]_vars /\ WF_vars(ImuArrives)

\* ------------------------------------------------------------------------
\* Properties
\* ------------------------------------------------------------------------
BearingToPixelOverloads ==
  { "bearingToPixel(vec,c)", "bearingToPixel(vec,c,refrac_index)",
    "bearingToPixel(vec,c,J)", "bearingToPixel(vec,c,J,refrac_index)",
    "bearingToPixel(vec,c,J,Jdpdn,refrac_index)",
    "bearingToPixel(n,c)", "bearingToPixel(n,c,refrac_index)",
    "bearingToPixel(n,c,J)", "bearingToPixel(n,c,J,refrac_index)",
    "bearingToPixel(n,c,J,Jdpdn,refrac_index)" }

Returned(names) == pc = "done" /\ op \in names

\* C1: every bearingToPixel overload returns false and leaves the pixel c
\* unwritten when the third component of the bearing is <= 0, and for a third
\* component > 0 it returns true with c written by the projection.
C1_BehindCameraRejected ==
  Returned(BearingToPixelOverloads) =>
    IF arg.vec[3] <= 0
    THEN ~res.ret /\ res.c = Unwritten /\ res.fn = "none"
    ELSE res.ret /\ res.c # Unwritten /\ Len(res.c) = 2 /\ res.fn # "none"

\* C1 happens: bearingToPixel(vec,c) has returned false for a bearing whose
\* third component is exactly 0, and c is unwritten.
C1_Witness ==
  /\ Returned({"bearingToPixel(vec,c)"})
  /\ arg.vec[3] = 0
  /\ ~res.ret
  /\ res.c = Unwritten

InverseOverloads ==
  { "pixelToBearing(c,vec)", "pixelToBearing(c,n)", "pixelToBearingAnalytical(c,vec)" }

\* the bearing a returned inverse call left in its output argument
InverseOutput == IF op = "pixelToBearing(c,n)" THEN res.n ELSE res.vec

\* v is a 3-vector without NaN whose squared norm is 1 up to the rounding of
\* the arithmetic (1e-5)
UnitBearing(v) == Len(v) = 3 /\ VecFinite(v) /\ Abs(Dot(v, v) - S) <= 10

\* C2: a returned pixelToBearing / pixelToBearingAnalytical call that reports
\* success has left a unit-length, NaN-free bearing in its output, and one that
\* reports failure has left the output unwritten or a unit-length, NaN-free
\* bearing.
C2_InverseUnitOrFailure ==
  Returned(InverseOverloads) =>
    IF res.ret THEN UnitBearing(InverseOutput)
    ELSE InverseOutput = Unwritten \/ UnitBearing(InverseOutput)

\* C2 fails here: on the RADTAN camera with k1 = 0.5, k2 = -0.5 the iterative
\* inverse of the pixel (24,12) has returned true after one pass of its loop
\* and the bearing it wrote holds NaN.
C2_Witness ==
  /\ Returned({"pixelToBearing(c,vec)"})
  /\ cam.type_ = "RADTAN" /\ cam.k1_ = Milli(500) /\ cam.k2_ = Milli(-500)
  /\ arg.c = <<Num(24), Num(12)>>
  /\ res.ret
  /\ res.vec[1] = NaN

\* the normalized radius of the bearing b is within valid_radius_
InsideValidRadius(camera, b) ==
  Leq(Hypot(Div(b[1], b[3]), Div(b[2], b[3])), camera.valid_radius_)

\* v is the unit bearing b up to 1e-3 in every component
SameBearing(v, b) ==
  /\ Len(v) = 3 /\ VecFinite(v)
  /\ \A k \in 1..3 : Abs(v[k] - Normalized(b)[k]) <= Milli(1)

RoundTripReturned == pc = "done" /\ op = "pixelToBearing(c,n)" /\ arg.b # <<>>

\* C3: when pixelToBearing(c,n) returns for the pixel c that bearingToPixel
\* produced from a bearing b of positive depth inside the valid radius, it
\* reports success and the bearing it hands back is b, whatever the model.
C3_RoundTrip ==
  (RoundTripReturned /\ InsideValidRadius(cam, arg.b)) =>
    res.ret /\ SameBearing(res.n, arg.b)

\* C3 fails here: under REFRAC with index 1 the bearing (0.6, 0, 0.8) has
\* come back from the round trip as a bearing whose first component exceeds
\* 0.68.
C3_Witness ==
  /\ RoundTripReturned
  /\ cam.type_ = "REFRAC" /\ cam.refrac_ind_ = S
  /\ arg.b = <<Milli(600), 0, Milli(800)>>
  /\ res.ret
  /\ res.n[1] > Milli(680)

\* C4: when the iterative pixelToBearing(c,vec) returns, it has run its loop
\* body between 1 and 100 times; it returns false exactly when the residual of
\* no pass was within the tolerance, and then all 100 passes were made and vec
\* is unwritten; when it returns true vec is (x,y,1) normalized, of unit length.
C4_IterativeOutcome ==
  Returned({"pixelToBearing(c,vec)"}) =>
    /\ loc.bodies \in 1..max_iter
    /\ res.ret = WithinTolerance(loc.e)
    /\ ~res.ret => (loc.bodies = max_iter /\ res.vec = Unwritten)
    /\ res.ret => (res.vec = Bearing(loc.ybar) /\ UnitBearing(res.vec))

\* C4 fails here: the residual of the first pass is within the tolerance at a
\* point where the Jacobian is singular, the step is NaN, and the call has
\* returned true with vec = (NaN, NaN, 1), which is not of unit length.
C4_Witness ==
  /\ Returned({"pixelToBearing(c,vec)"})
  /\ loc.bodies = 1 /\ loc.success /\ WithinTolerance(loc.e)
  /\ loc.ybar = <<NaN, NaN>>
  /\ res.ret
  /\ res.vec = <<NaN, NaN, S>>

\* C5: the loop body of the iterative pixelToBearing runs at most 100 times
\* in a call; after the 100th pass the call returns without a further pass; a
\* returned inverse call is not started again by the camera, the caller takes
\* the result; and a call that has entered the loop returns.
C5_LoopTerminates ==
  /\ [](loc.bodies <= max_iter)
  /\ [][(pc = "loop" /\ loc.bodies = max_iter) => (pc' = "done" /\ loc' = loc)]_vars
  /\ [][(pc = "done" /\ op \in InverseOverloads) => pc' = "idle"]_vars
  /\ (pc = "loop") ~> (pc = "done")

\* C5 happens: the iterative inverse has returned false after exactly 100
\* passes of its loop body.
C5_Witness ==
  /\ Returned({"pixelToBearing(c,vec)"})
  /\ loc.bodies = max_iter
  /\ ~loc.success
  /\ ~res.ret

\* C6: a returned pixelToBearing(c,n) has called exactly one inverse: the
\* analytic one if the model is REFRAC or EQUIREFRAC and the iterative one if
\* it is RADTAN, EQUIDIST or DS, and its return value is the one the inverse
\* it called returned.
C6_InverseDispatch ==
  Returned({"pixelToBearing(c,n)"}) =>
    IF cam.type_ \in {"REFRAC", "EQUIREFRAC"}
    THEN /\ res.inner = <<"pixelToBearingAnalytical(c,vec)">>
         /\ res.ret = pixelToBearingAnalytical(cam, arg.c).ret
         /\ loc = NoLoc
    ELSE /\ cam.type_ \in {"RADTAN", "EQUIDIST", "DS"}
         /\ res.inner = <<"pixelToBearing(c,vec)">>
         /\ res.ret = loc.success
         /\ loc.bodies >= 1
         /\ res.stages = <<>>

\* C6 happens: under EQUIREFRAC pixelToBearing(c,n) has returned what the
\* analytic inverse, the one inverse it called, returned.
C6_Witness ==
  /\ Returned({"pixelToBearing(c,n)"})
  /\ cam.type_ = "EQUIREFRAC"
  /\ res.inner = <<"pixelToBearingAnalytical(c,vec)">>
  /\ res.ret

RefractiveModel(camera) == camera.type_ \in {"REFRAC", "EQUIREFRAC"}

WithIndex(camera, n) == [camera EXCEPT !.refrac_ind_ = n]

ExplicitIndexDistort ==
  { "distort(in,out,refrac_index)", "distort(in,out,refrac_index,J)" }

ExplicitIndexOverloads ==
  ExplicitIndexDistort \cup
  { "bearingToPixel(vec,c,refrac_index)", "bearingToPixel(vec,c,J,refrac_index)",
    "bearingToPixel(vec,c,J,Jdpdn,refrac_index)",
    "bearingToPixel(n,c,refrac_index)", "bearingToPixel(n,c,J,refrac_index)",
    "bearingToPixel(n,c,J,Jdpdn,refrac_index)" }

PointAndJacobian(r, p) == [p |-> p, J |-> r.J]
NoJacobian(p) == [p |-> p, J |-> Unwritten]
ArgNormal == [vec |-> arg.vec, M |-> arg.M]

\* the point and the Jacobian the returned call left
Observed ==
  [p |-> IF op \in ExplicitIndexDistort THEN res.out ELSE res.c, J |-> res.J]

\* the point and the Jacobian the same call with the same arguments leaves on
\* the camera given
Recomputed(camera) ==
  CASE op = "distort(in,out,refrac_index)" ->
         NoJacobian(distort_n(camera, arg.in, arg.refrac_index).out)
    [] op = "distort(in,out,refrac_index,J)" ->
         Once(distort_nJ(camera, arg.in, arg.refrac_index), LAMBDA d :
           PointAndJacobian(d, d.out))
    [] op = "bearingToPixel(vec,c,refrac_index)" ->
         NoJacobian(bearingToPixel_n(camera, arg.vec, arg.refrac_index).c)
    [] op = "bearingToPixel(vec,c,J,refrac_index)" ->
         Once(bearingToPixel_nJ(camera, arg.vec, arg.refrac_index), LAMBDA r :
           PointAndJacobian(r, r.c))
    [] op = "bearingToPixel(vec,c,J,Jdpdn,refrac_index)" ->
         Once(bearingToPixel_JJdpdn(camera, arg.vec, arg.refrac_index, 0), LAMBDA r :
           PointAndJacobian(r, r.c))
    [] op = "bearingToPixel(n,c,refrac_index)" ->
         NoJacobian(bearingToPixel_N_n(camera, ArgNormal, arg.refrac_index).c)
    [] op = "bearingToPixel(n,c,J,refrac_index)" ->
         Once(bearingToPixel_N_nJ(camera, ArgNormal, arg.refrac_index, 0), LAMBDA r :
           PointAndJacobian(r, r.c))
    [] op = "bearingToPixel(n,c,J,Jdpdn,refrac_index)" ->
         Once(bearingToPixel_N_JJdpdn(camera, ArgNormal, arg.refrac_index, 0), LAMBDA r :
           PointAndJacobian(r, r.c))

\* the point the overload without an index argument leaves on the camera given
WithStoredIndex(camera) ==
  IF op \in ExplicitIndexDistort THEN distort(camera, arg.in).out
  ELSE bearingToPixel(camera, arg.vec).c

\* C7: under REFRAC and EQUIREFRAC a distort or bearingToPixel overload with a
\* refractive index argument that has returned a point has left the same point
\* and Jacobian whatever the stored refrac_ind_ is, and the point is the one
\* the overload without the argument computes when refrac_ind_ is the index
\* supplied.
C7_ExplicitIndexUsed ==
  (Returned(ExplicitIndexOverloads) /\ RefractiveModel(cam) /\ res.ret) =>
    /\ \A m \in RefIndices : Recomputed(WithIndex(cam, m)) = Observed
    /\ Observed.p = WithStoredIndex(WithIndex(cam, arg.refrac_index))

\* C7 fails here: under EQUIREFRAC with stored index 1,
\* distort(in,out,refrac_index) called with index 1.33 has left the point of
\* the stored index, which is not the point of index 1.33.
C7_Witness ==
  /\ Returned({"distort(in,out,refrac_index)"})
  /\ cam.type_ = "EQUIREFRAC" /\ cam.refrac_ind_ = S
  /\ arg.refrac_index = Milli(1330)
  /\ arg.in = <<Milli(300), Milli(400)>>
  /\ res.out = distort(cam, arg.in).out
  /\ res.out # distort(WithIndex(cam, Milli(1330)), arg.in).out

\* 1 + r2 - n2 r2 <= 0 at the projection of the bearing, for the stored index
\* and for the index supplied, if one is
OutsideRefractionDomain ==
  \A n \in {cam.refrac_ind_} \cup ({arg.refrac_index} \ {NoIndex}) :
    Leq(RefracG(Project(arg.vec), n), 0)

\* C8: under REFRAC and EQUIREFRAC a bearingToPixel overload called with a
\* bearing of positive depth whose projection has 1 + r2 - n2 r2 <= 0 returns
\* false and writes no pixel.
C8_DomainViolationRejected ==
  (/\ Returned(BearingToPixelOverloads)
   /\ RefractiveModel(cam)
   /\ arg.vec[3] > 0
   /\ OutsideRefractionDomain) => (~res.ret /\ res.c = Unwritten)

\* C8 fails here: under REFRAC with index 1.33 bearingToPixel(vec,c) of the
\* bearing (2, 0, 1), for which 1 + r2 - n2 r2 < 0, has returned true and the
\* pixel it wrote is NaN.
C8_Witness ==
  /\ Returned({"bearingToPixel(vec,c)"})
  /\ cam.type_ = "REFRAC" /\ cam.refrac_ind_ = Milli(1330)
  /\ arg.vec = <<Num(2), 0, S>>
  /\ Less(RefracG(Project(arg.vec), cam.refrac_ind_), 0)
  /\ res.ret
  /\ res.c = <<NaN, NaN>>

Stages(r) == {r.stages[k] : k \in DOMAIN r.stages}

\* C9: a returned pixelToBearingAnalytical has applied the fisheye inverse if
\* and only if the model is EQUIREFRAC; under REFRAC the bearing is the
\* closed-form inverse of the refraction applied to the normalized pixel.
C9_FisheyeOnlyEquiRefractive ==
  Returned({"pixelToBearingAnalytical(c,vec)"}) =>
    /\ ("fisheye::undistortPoints" \in Stages(res)) <=> (cam.type_ = "EQUIREFRAC")
    /\ cam.type_ = "REFRAC" =>
         res.vec = Bearing(RefracInverse(Normalize(cam, arg.c), cam.refrac_ind_))

\* C9 fails here: under REFRAC pixelToBearingAnalytical of the pixel (24,12)
\* has applied the fisheye inverse, and its bearing is not the closed-form
\* inverse of the refraction applied to the normalized pixel.
C9_Witness ==
  /\ Returned({"pixelToBearingAnalytical(c,vec)"})
  /\ cam.type_ = "REFRAC"
  /\ arg.c = <<Num(24), Num(12)>>
  /\ "fisheye::undistortPoints" \in Stages(res)
  /\ res.vec = Bearing(RefracInverse(fisheyeUndistortPoints(cam, arg.c), cam.refrac_ind_))
  /\ res.vec # Bearing(RefracInverse(Normalize(cam, arg.c), cam.refrac_ind_))

DegenerateDirect ==
  { "distortEquidist(in,out)", "distortEquidist(in,out,J)",
    "distortDoubleSphere(in,out)", "distortDoubleSphere(in,out,J)" }

DistortOverloads ==
  { "distort(in,out)", "distort(in,out,refrac_index)", "distort(in,out,J)",
    "distort(in,out,refrac_index,J)" }

WithJacobian ==
  { "distortEquidist(in,out,J)", "distortDoubleSphere(in,out,J)", "distort(in,out,J)",
    "distort(in,out,refrac_index,J)" }

\* the Jacobian of the refraction stage that precedes the equidistant stage
\* under EQUIREFRAC
RefractionStageJ ==
  RefracJ(arg.in, IF op = "distort(in,out,refrac_index,J)" THEN arg.refrac_index
                  ELSE cam.refrac_ind_)

\* C10: at in = (0,0) distortEquidist and distortDoubleSphere, called directly
\* or by distort() under EQUIDIST and DS, take the identity branch: out is in
\* and J, where there is one, is the 2x2 identity.  Under EQUIREFRAC the
\* equidistant stage takes the identity branch as well: out is in and J is the
\* identity times the Jacobian of the refraction stage.
C10_DegenerateRadiusIdentity ==
  (/\ pc = "done"
   /\ arg.in = <<0, 0>>
   /\ \/ op \in DegenerateDirect
      \/ op \in DistortOverloads /\ cam.type_ \in {"EQUIDIST", "DS", "EQUIREFRAC"}) =>
    /\ res.path = "identity"
    /\ res.out = arg.in
    /\ res.J = IF op \notin WithJacobian THEN Unwritten
               ELSE IF op \in DistortOverloads /\ cam.type_ = "EQUIREFRAC"
                    THEN MatMul(Identity2, RefractionStageJ)
                    ELSE Identity2

\* C10 happens: under EQUIDIST distort(in,out,J) of the point (0,0) has left
\* out = (0,0) and J = identity by the identity branch of distortEquidist.
C10_Witness ==
  /\ Returned({"distort(in,out,J)"})
  /\ cam.type_ = "EQUIDIST"
  /\ arg.in = <<0, 0>>
  /\ res.fn = "distortEquidist(in,out,J)"
  /\ res.path = "identity"
  /\ res.out = <<0, 0>>
  /\ res.J = Identity2

\* the index the refraction stage of the returned call uses
StageIndex ==
  IF op = "distort(in,out,refrac_index,J)" THEN arg.refrac_index ELSE cam.refrac_ind_

\* the refracted point, the input of the equidistant stage
Refracted == RefracOut(arg.in, StageIndex)

EquiRefractiveReturned ==
  /\ pc = "done"
  /\ \/ op \in DistortOverloads /\ cam.type_ = "EQUIREFRAC"
     \/ op = "distortEquiRefractive(in,out,J_equi,J_refrac)"

\* C11: a returned EQUIREFRAC distortion has left in out the equidistant
\* distortion of the refracted input; the overloads with J have left the
\* equidistant Jacobian at the refracted point times the refraction Jacobian at
\* the input; the overload with J_equi and J_refrac has left these two
\* factors, whose product is the J of the overload with one Jacobian.
C11_EquiRefractiveComposition ==
  EquiRefractiveReturned =>
    /\ res.out = distortEquidist(cam, Refracted).out
    /\ op \in WithJacobian =>
         res.J = MatMul(distortEquidist_J(cam, Refracted).J, RefracJ(arg.in, StageIndex))
    /\ op = "distortEquiRefractive(in,out,J_equi,J_refrac)" =>
         /\ res.J_equi = distortEquidist_J(cam, Refracted).J
         /\ res.J_refrac = RefracJ(arg.in, StageIndex)
         /\ MatMul(res.J_equi, res.J_refrac) = distortEquiRefractive_J(cam, arg.in).J

\* C11 happens: with index 1.33 the overload with two Jacobians has returned
\* for the point (0.3, 0.4) two finite factors, neither of them the identity,
\* and distort(in,out,J) under EQUIREFRAC returns their product.
C11_Witness ==
  /\ Returned({"distortEquiRefractive(in,out,J_equi,J_refrac)"})
  /\ cam.type_ = "EQUIREFRAC" /\ cam.refrac_ind_ = Milli(1330)
  /\ arg.in = <<Milli(300), Milli(400)>>
  /\ MatFinite(res.J_equi) /\ MatFinite(res.J_refrac)
  /\ res.J_equi # Identity2 /\ res.J_refrac # Identity2
  /\ distort_J(cam, arg.in).J = MatMul(res.J_equi, res.J_refrac)

IndexDerivativeOverload == "bearingToPixel(vec,c,J,Jdpdn,refrac_index)"

\* the partial of the refracted point with respect to the index, at the
\* projection of the bearing and the index supplied
IndexPartial == RefracIndexDerivative(Project(arg.vec), arg.refrac_index)

\* the Jacobian of the equidistant stage at the point refracted with the index
\* supplied
EquidistStageJ ==
  distortEquidist_J(cam, RefracOut(Project(arg.vec), arg.refrac_index)).J

\* C12: when bearingToPixel(vec,c,J,Jdpdn,refrac_index) returns true, Jdpdn is
\* the closed-form partial of the refracted point with respect to the index
\* times the 2x2 intrinsics block, with the equidistant-stage Jacobian between
\* the two under EQUIREFRAC and no other matrix under any other model, and the
\* pixel c is the one computed with the index supplied.
C12_IndexDerivative ==
  (Returned({IndexDerivativeOverload}) /\ res.ret) =>
    /\ res.Jdpdn = IF cam.type_ = "EQUIREFRAC"
                   THEN MatVec(MatMul(Kblock(cam), EquidistStageJ), IndexPartial)
                   ELSE MatVec(Kblock(cam), IndexPartial)
    /\ res.c = bearingToPixel(WithIndex(cam, arg.refrac_index), arg.vec).c

\* C12 fails here: under REFRAC the call has returned true for the bearing
\* (0.3, 0.4, 1), the partial with respect to the index is finite, and Jdpdn
\* holds NaN taken from the matrix J_equi, which nothing assigned.
C12_Witness ==
  /\ Returned({IndexDerivativeOverload})
  /\ cam.type_ = "REFRAC"
  /\ arg.vec = <<Milli(300), Milli(400), S>>
  /\ res.ret
  /\ VecFinite(IndexPartial)
  /\ res.Jdpdn = <<NaN, NaN>>

VectorJacobianOverloads ==
  { "bearingToPixel(vec,c,J)", "bearingToPixel(vec,c,J,refrac_index)",
    "bearingToPixel(vec,c,J,Jdpdn,refrac_index)" }
ManifoldJacobianOverloads ==
  { "bearingToPixel(n,c,J)", "bearingToPixel(n,c,J,refrac_index)",
    "bearingToPixel(n,c,J,Jdpdn,refrac_index)" }

\* diag(fx, fy)
IntrinsicsJ == <<<<cam.K_[1][1], 0>>, <<0, cam.K_[2][2]>>>>

\* [[1/z, 0, -x/z^2], [0, 1/z, -y/z^2]] at the bearing of the call
PinholeJ ==
  <<<<Div(S, arg.vec[3]), 0, Neg(Div(arg.vec[1], Mul(arg.vec[3], arg.vec[3])))>>,
    <<0, Div(S, arg.vec[3]), Neg(Div(arg.vec[2], Mul(arg.vec[3], arg.vec[3])))>>>>

\* the Jacobian of the distortion the overload called, at the projected point
DistortionJ ==
  IF \/ op \in {"bearingToPixel(vec,c,J)", "bearingToPixel(n,c,J)"}
     \/ /\ op \in {"bearingToPixel(vec,c,J,Jdpdn,refrac_index)",
                   "bearingToPixel(n,c,J,Jdpdn,refrac_index)"}
        /\ cam.type_ = "EQUIREFRAC"
  THEN distort_J(cam, Project(arg.vec)).J
  ELSE distort_nJ(cam, Project(arg.vec), arg.refrac_index).J

BearingJacobian == MatMul(MatMul(IntrinsicsJ, DistortionJ), PinholeJ)

\* C13: for a bearing (x, y, z) with z > 0 the 2x3 Jacobian a bearingToPixel
\* overload returns is diag(fx, fy) * Jdistortion * Jproject with
\* Jproject = [[1/z, 0, -x/z^2], [0, 1/z, -y/z^2]], and the overloads on a
\* manifold element return this product times the 3x2 tangent basis M.
C13_JacobianChain ==
  (Returned(VectorJacobianOverloads \cup ManifoldJacobianOverloads)
     /\ arg.vec[3] > 0) =>
    /\ res.ret
    /\ op \in VectorJacobianOverloads => res.J = BearingJacobian
    /\ op \in ManifoldJacobianOverloads => res.J = MatMul(BearingJacobian, arg.M)

\* C13 happens: bearingToPixel(vec,c,J) has returned for the bearing
\* (0.6, 0.8, 2) under a model with a distortion Jacobian that is not the
\* identity and intrinsics that are not the identity, and the third column of
\* J is not zero.
C13_Witness ==
  /\ Returned({"bearingToPixel(vec,c,J)"})
  /\ arg.vec = <<Milli(600), Milli(800), Num(2)>>
  /\ cam.type_ = "EQUIDIST"
  /\ IntrinsicsJ # Identity2
  /\ DistortionJ # Identity2
  /\ MatFinite(res.J)
  /\ res.J[1][3] < 0
  /\ res.J = BearingJacobian

\* C13 happens on the manifold: bearingToPixel(n,c,J) has returned a finite
\* 2x2 matrix for the element (0.6, 0, 0.8).
C13_ManifoldReached ==
  /\ Returned({"bearingToPixel(n,c,J)"})
  /\ arg.vec = <<Milli(600), 0, Milli(800)>>
  /\ cam.K_ # IdentityK
  /\ MatFinite(res.J)
  /\ res.J = MatMul(BearingJacobian, arg.M)

ZeroRadtan ==
  /\ cam.type_ = "RADTAN"
  /\ cam.k1_ = 0 /\ cam.k2_ = 0 /\ cam.k3_ = 0 /\ cam.p1_ = 0 /\ cam.p2_ = 0

\* (fx*x/z + cx, fy*y/z + cy) as the float pixel
PinholePixel ==
  <<ToFloat(Add(Mul(cam.K_[1][1], Div(arg.vec[1], arg.vec[3])), cam.K_[1][3])),
    ToFloat(Add(Mul(cam.K_[2][2], Div(arg.vec[2], arg.vec[3])), cam.K_[2][3]))>>

\* C14: the Camera as constructed has identity intrinsics, every coefficient
\* zero, model RADTAN and index 1, and keeps all of these but the index until
\* a file is loaded; under RADTAN with zero coefficients bearingToPixel of
\* (x, y, z), z > 0, returns the pixel (fx*x/z + cx, fy*y/z + cy), which for
\* fx = fy = 500, cx = 320, cy = 240 and the bearing (0, 0, 1) is (320, 240).
C14_DefaultPinhole ==
  /\ Camera.K_ = <<<<S, 0, 0>>, <<0, S, 0>>, <<0, 0, S>>>>
  /\ Camera.type_ = "RADTAN"
  /\ Camera.refrac_ind_ = S
  /\ \A k \in {"k1_", "k2_", "k3_", "k4_", "k5_", "k6_", "p1_", "p2_",
               "s1_", "s2_", "s3_", "s4_"} : Camera[k] = 0
  /\ loads = 0 => cam = [Camera EXCEPT !.refrac_ind_ = cam.refrac_ind_]
  /\ (Returned(BearingToPixelOverloads) /\ ZeroRadtan /\ arg.vec[3] > 0) =>
       /\ res.ret
       /\ res.c = PinholePixel
       /\ (cam.K_ = <<<<Num(500), 0, Num(320)>>, <<0, Num(500), Num(240)>>, <<0, 0, S>>>>
             /\ arg.vec = <<0, 0, S>>) => res.c = <<Num(320), Num(240)>>

\* C14 happens: with fx = fy = 500, cx = 320, cy = 240 and zero coefficients
\* bearingToPixel(vec,c) has returned the pixel (470, 440) for the bearing
\* (0.6, 0.8, 2).
C14_Witness ==
  /\ Returned({"bearingToPixel(vec,c)"})
  /\ ZeroRadtan
  /\ cam.K_ = <<<<Num(500), 0, Num(320)>>, <<0, Num(500), Num(240)>>, <<0, 0, S>>>>
  /\ arg.vec = <<Milli(600), Milli(800), Num(2)>>
  /\ res.c = <<Num(470), Num(440)>>

\* C14's example: the bearing (0, 0, 1) has given the pixel (320, 240).
C14_ExampleReached ==
  /\ Returned({"bearingToPixel(vec,c)"})
  /\ ZeroRadtan
  /\ arg.vec = <<0, 0, S>>
  /\ res.c = <<Num(320), Num(240)>>

\* C14 on the Camera as constructed: the pixel is (x/z, y/z).
C14_ConstructedReached ==
  /\ Returned({"bearingToPixel(vec,c)"})
  /\ loads = 0 /\ cam = Camera
  /\ arg.vec = <<Milli(600), Milli(800), Num(2)>>
  /\ res.c = <<Milli(300), Milli(400)>>

\* C15: the parameter set of the Camera (K_, type_, the coefficients,
\* refrac_ind_, valid_radius_) changes in no step but a load: no distort,
\* bearingToPixel or pixelToBearing call and no step of the node's update and
\* publish cycle changes it.
C15_ParametersFrozen == [][cam' # cam => loads' = loads + 1]_vars

\* C15 fails here: a plumb_bob file has been loaded, which leaves refrac_ind_
\* at the constructor's 1.0, and the camera's refrac_ind_ is 1.33, which the
\* filter state wrote in the update and publish cycle.
C15_Witness ==
  /\ loads = 1
  /\ cam.type_ = "RADTAN"
  /\ cam.K_ # IdentityK
  /\ cam.refrac_ind_ = Milli(1330)

KnownModels == {"plumb_bob", "refractive", "equidistant", "equirefractive", "ds"}

\* C16: a load() call that has completed normally read one of the five known
\* distortion_model names: with any other name load() does not return to its
\* caller with a model tag active.
C16_UnknownModelFatal == loads > 0 => distortionModel \in KnownModels

\* C16 fails here: load() has returned for a file whose distortion_model is
\* "pinhole", the tag RADTAN of the constructor is active with identity
\* intrinsics, and bearingToPixel(vec,c) has then returned true with a pixel.
C16_Witness ==
  /\ loads = 1
  /\ distortionModel = "pinhole"
  /\ cam.type_ = "RADTAN"
  /\ cam.K_ = IdentityK
  /\ Returned({"bearingToPixel(vec,c)"})
  /\ res.ret
  /\ res.c = <<Milli(300), Milli(400)>>

\* index of the file the camera was loaded from last
FileIndex(model) == (CHOOSE f \in Files : f.distortion_model = model).refractive_index

\* C17: after load() of a file of model 'refractive' or 'equirefractive', and
\* until the index is written again, refrac_ind_ is the file's
\* refractive_index.
C17_IndexFromFile ==
  [][(loads' = loads + 1 /\ distortionModel' \in {"refractive", "equirefractive"})
       => cam'.refrac_ind_ = FileIndex(distortionModel')]_vars

\* C17 fails here: load() has returned for the 'refractive' file, whose
\* refractive_index is 1.33, and refrac_ind_ is the constructor's 1.0; a
\* distort(in,out) call has then returned the input point unrefracted.
C17_Witness ==
  /\ loads = 1
  /\ distortionModel = "refractive"
  /\ cam.type_ = "REFRAC"
  /\ cam.refrac_ind_ = S
  /\ FileIndex("refractive") = Milli(1330)
  /\ Returned({"distort(in,out)"})
  /\ arg.in = <<Milli(300), Milli(400)>>
  /\ res.out = arg.in

\* the reset a request asks for; acc is the acceleration of the IMU message
RequestedReset(acc) ==
  CASE request.kind = "requestReset" ->
         [reset |-> "resetWithAccelerometer", WrWM |-> <<>>, qMW |-> <<>>,
          n |-> 0, acc |-> acc]
    [] request.kind = "requestResetToPose" ->
         [reset |-> "resetWithPose", WrWM |-> request.WrWM, qMW |-> request.qMW,
          n |-> 0, acc |-> <<>>]
    [] request.kind = "requestResetRefractiveIndex" ->
         [reset |-> "resetWithRefractiveIndex", WrWM |-> <<>>, qMW |-> <<>>,
          n |-> request.n, acc |-> <<>>]
    [] OTHER -> [reset |-> "none"]

ImuHandled(acc) ==
  \E updated \in BOOLEAN, n \in RefIndices, failsafe \in Poses \cup {NoPose} :
    imuCallback(acc, updated, n, failsafe)

\* C18: a reset request that arrived while the filter was Initialized stays
\* pending, with the filter not Initialized, until an IMU message is handled;
\* handling that message resets the filter with the method of the request
\* (the accelerometer reading of the message, the pose of the request, or the
\* refractive index of the request) and leaves the state Initialized.
C18_ResetOnNextImu ==
  /\ [](request.initialized => ~isInitialized(node.init_state_))
  /\ [][\A acc \in Accelerations :
          (request.initialized /\ ImuHandled(acc)) =>
            /\ node'.mpFilter_ = RequestedReset(acc)
            /\ node'.init_state_.state_ = "Initialized"]_vars

\* C18 happens: requestResetRefractiveIndex(1.33) was accepted, an IMU message
\* has been handled since, the filter was reset with the index 1.33 and the
\* state is Initialized.
C18_Witness ==
  /\ node.mpFilter_.reset = "resetWithRefractiveIndex"
  /\ node.mpFilter_.n = Milli(1330)
  /\ isInitialized(node.init_state_)
  /\ request = NoRequest

\* C18 happens for a pose: the filter was reset with the pose of an accepted
\* requestResetToPose.
C18_PoseReached ==
  /\ node.mpFilter_.reset = "resetWithPose"
  /\ node.mpFilter_.WrWM = <<S, 0, Num(2)>>
  /\ node.mpFilter_.qMW = <<0, S, 0, 0>>
  /\ isInitialized(node.init_state_)

RequestHandled ==
  \/ CallRequestReset
  \/ \E pose \in Poses : CallRequestResetToPose(pose)
  \/ \E n \in RefIndices : CallRequestResetRefractiveIndex(n)

\* C19: a reset request handled while the filter is not Initialized changes
\* neither the pending kind of initialization nor the buffered pose nor the
\* buffered refractive index, and resets nothing.
C19_RequestIgnored ==
  [][(RequestHandled /\ node.init_state_.state_ # "Initialized") =>
       /\ node'.init_state_.state_ = node.init_state_.state_
       /\ node'.init_state_.WrWM_ = node.init_state_.WrWM_
       /\ node'.init_state_.qMW_ = node.init_state_.qMW_
       /\ node'.init_state_.refractiveIndex_ = node.init_state_.refractiveIndex_
       /\ node'.mpFilter_ = node.mpFilter_]_vars

\* C19 happens: with a reset to the index 1.33 pending, requestResetToPose
\* arrived and was ignored: the pending kind is still the refractive index and
\* the buffered position is still the constructor's zero.
C19_Witness ==
  /\ request.kind = "requestResetToPose"
  /\ ~request.initialized
  /\ node.init_state_.state_ = "WaitForInitRefractiveIndex"
  /\ node.init_state_.refractiveIndex_ = Milli(1330)
  /\ node.init_state_.WrWM_ = <<0, 0, 0>>
  /\ request.WrWM # node.init_state_.WrWM_

\* C19 happens at start-up: a request arrived before the first IMU message.
C19_StartupReached ==
  /\ request.kind = "requestResetRefractiveIndex"
  /\ ~request.initialized
  /\ node.mpFilter_.reset = "none"
  /\ node.init_state_.state_ = "WaitForInitUsingAccel"
  /\ node.init_state_.refractiveIndex_ # request.n

TestReturned == pc = "done" /\ op = "testCameraModel()"

\* C20: testCameraModel returns once called, and when it returns setRandom has
\* been called with the seeds 1 to 9 and no other, one pass of the checks each.
C20_TestTerminates ==
  /\ [](TestReturned => (test.seeds = 1..9 /\ test.s = 10))
  /\ [](pc = "test" => (test.s \in 1..10 /\ test.seeds = 1..(test.s - 1)))
  /\ (pc = "test") ~> TestReturned

\* C20 happens: testCameraModel has returned after the pass with the seed 9,
\* in which the bearing (0.6, 0, 0.8) was projected and inverted.
C20_Witness ==
  /\ TestReturned
  /\ cam.K_ # IdentityK
  /\ 9 \in test.seeds
  /\ test.b_s = <<Milli(600), 0, Milli(800)>>
  /\ test.p_s # Unwritten
  /\ test.inverted

IterativeOverloads == {"pixelToBearing(c,vec)", "pixelToBearing(c,n)"}
InLoop == pc = "loop" /\ op \in IterativeOverloads

\* the residual of the current guess against the target: y - distort(ybar)
GuessResidual == VecSub(loc.y, distort_J(cam, loc.ybar).out)

\* the Gauss-Newton step of the current guess: (Jt J)^-1 Jt e
GuessStep ==
  MatVec(MatMul(Inverse2(MatMul(Transpose(distort_J(cam, loc.ybar).J),
                                distort_J(cam, loc.ybar).J)),
                Transpose(distort_J(cam, loc.ybar).J)),
         GuessResidual)

\* e.dot(e) <= 1e-10 for the residual a pass has left in e
ResidualMeetsTolerance(e) ==
  /\ e[1] # NaN /\ e[2] # NaN
  /\ Abs(e[1]) <= 100 /\ Abs(e[2]) <= 100
  /\ e[1] * e[1] + e[2] * e[2] <= 100

\* C21: the iterative pixelToBearing starts from the guess
\* ((c.x - cx)/fx, (c.y - cy)/fy); every pass of the loop leaves in e the
\* residual of the guess it started with, adds the Gauss-Newton step of that
\* guess to the guess, and succeeds iff that residual meets the tolerance; no
\* pass follows a pass that succeeded and every earlier pass failed the test;
\* the bearing returned on success is (ybar, 1) normalized for the guess after
\* the last update.
C21_IterationOrder ==
  /\ []((InLoop /\ loc.bodies = 0) =>
          /\ loc.y = <<Div(Sub(arg.c[1], cam.K_[1][3]), cam.K_[1][1]),
                       Div(Sub(arg.c[2], cam.K_[2][3]), cam.K_[2][2])>>
          /\ loc.ybar = loc.y)
  /\ [][(InLoop /\ loc'.bodies # loc.bodies) =>
          /\ loc'.bodies = loc.bodies + 1
          /\ ~loc.success
          /\ loc'.e = GuessResidual
          /\ loc'.ybar = VecAdd(loc.ybar, GuessStep)
          /\ loc'.success = ResidualMeetsTolerance(loc'.e)
          /\ loc'.y = loc.y]_vars
  /\ [](InLoop => loc.bodies = loc.i + (IF loc.success THEN 1 ELSE 0))
  /\ []((Returned({"pixelToBearing(c,vec)"}) /\ res.ret) =>
          /\ loc.success
          /\ ResidualMeetsTolerance(loc.e)
          /\ res.vec = Normalized(<<loc.ybar[1], loc.ybar[2], S>>))

\* C21 happens: pixelToBearing(c,vec) has returned true after three passes or
\* more, and the last update moved the guess: the residual tested is not the
\* residual of the guess the bearing is built from.
C21_Witness ==
  /\ Returned({"pixelToBearing(c,vec)"})
  /\ res.ret
  /\ loc.bodies >= 3
  /\ loc.e # <<0, 0>>
  /\ GuessResidual # loc.e
  /\ res.vec = Bearing(loc.ybar)

\* the model each distortion function belongs to
ModelOfFunction ==
  [f \in {"distortRadtan(in,out)", "distortRadtan(in,out,J)"} |-> "RADTAN"] @@
  [f \in {"distortRefractive(in,out)", "distortRefractive(in,out,refrac_index)",
          "distortRefractive(in,out,J)", "distortRefractive(in,out,refrac_index,J)"}
     |-> "REFRAC"] @@
  [f \in {"distortEquidist(in,out)", "distortEquidist(in,out,J)"} |-> "EQUIDIST"] @@
  [f \in {"distortEquiRefractive(in,out)", "distortEquiRefractive(in,out,J)",
          "distortEquiRefractive(in,out,refrac_index,J)"} |-> "EQUIREFRAC"] @@
  [f \in {"distortDoubleSphere(in,out)", "distortDoubleSphere(in,out,J)"} |-> "DS"]

DispatchOverloads ==
  { "distort(in,out)", "distort(in,out,refrac_index)", "distort(in,out,J)",
    "distort(in,out,refrac_index,J)" }

\* the model the tag stands for: itself, or RADTAN for a value outside the five
TagModel == IF cam.type_ \in ModelType THEN cam.type_ ELSE "RADTAN"

\* the points the distortion functions of the model give for the input, with
\* the stored index and with the index of the call
ModelPoints ==
  CASE TagModel = "RADTAN" -> {distortRadtan(cam, arg.in).out}
    [] TagModel = "REFRAC" ->
         {distortRefractive(cam, arg.in).out,
          distortRefractive_n(cam, arg.in, arg.refrac_index).out}
    [] TagModel = "EQUIDIST" -> {distortEquidist(cam, arg.in).out}
    [] TagModel = "EQUIREFRAC" ->
         {distortEquiRefractive(cam, arg.in).out,
          distortEquiRefractive_nJ(cam, arg.in, arg.refrac_index).out}
    [] TagModel = "DS" -> {distortDoubleSphere(cam, arg.in).out}

\* C22: whatever the overload of distort, the function it has called is a
\* distortion function of the model of the tag and its output is that
\* function's; under a tag outside the five enumerators it is distortRadtan.
C22_DispatchByTag ==
  Returned(DispatchOverloads) =>
    /\ res.fn \in DOMAIN ModelOfFunction
    /\ ModelOfFunction[res.fn] = TagModel
    /\ res.out \in ModelPoints
    /\ cam.type_ \notin ModelType =>
         res.fn \in {"distortRadtan(in,out)", "distortRadtan(in,out,J)"}

\* C22 happens: under a tag outside the five enumerators, on a camera loaded
\* from the ds file, distort(in,out,refrac_index,J) has returned what
\* distortRadtan(in,out,J) gives for the point (2, 0), which is not what
\* distortDoubleSphere gives.
C22_Witness ==
  /\ Returned({"distort(in,out,refrac_index,J)"})
  /\ cam.type_ = OutOfRangeTag
  /\ distortionModel = "ds"
  /\ arg.in = <<Num(2), 0>>
  /\ res.fn = "distortRadtan(in,out,J)"
  /\ res.out = distortRadtan(cam, arg.in).out
  /\ res.out # distortDoubleSphere(cam, arg.in).out
  /\ res.J = distortRadtan_J(cam, arg.in).J

\* C22 happens under a known tag: EQUIREFRAC with the explicit index.
C22_KnownTagReached ==
  /\ Returned({"distort(in,out,refrac_index)"})
  /\ cam.type_ = "EQUIREFRAC"
  /\ arg.in = <<Milli(300), Milli(400)>>
  /\ res.fn = "distortEquiRefractive(in,out)"

\* the call of updateAndPublish the last handler made
UpdateCalled(doPublish, advanced) ==
  node.handled.calls = <<[doPublish |-> doPublish, advanced |-> advanced]>>

\* C23: a handler publishes only if the filter was Initialized when it ran, the
\* safe time advanced in its call of updateAndPublish and doPublish was true;
\* the velocity and barometer callbacks, which pass doPublish = false, never
\* publish and never have the health monitor reset the filter.
C23_PublishGuard ==
  /\ [](node.handled.published => UpdateCalled(TRUE, TRUE))
  /\ [](node.handled.healthReset => node.handled.published)
  /\ [](node.handled.handler \in {"velocityCallback", "baroCallback"} =>
          ~node.handled.published /\ ~node.handled.healthReset)
  /\ [][node'.handled.published => isInitialized(node.init_state_)]_vars

\* C23 happens: a velocity message was handled with the filter Initialized, its
\* measurement was added, the safe time advanced in updateAndPublish(false),
\* and nothing was published.
C23_Witness ==
  /\ node.handled.handler = "velocityCallback"
  /\ node.handled.added = <<"velocity">>
  /\ UpdateCalled(FALSE, TRUE)
  /\ ~node.handled.published
  /\ isInitialized(node.init_state_)

\* C23 happens for the barometer: the second message handled added a
\* measurement and called updateAndPublish(false).
C23_BaroReached ==
  /\ node.handled.handler = "baroCallback"
  /\ node.handled.added = <<"baro">>
  /\ UpdateCalled(FALSE, TRUE)
  /\ ~node.handled.published

\* C23 happens for a publishing callback: a pose message was handled, the safe
\* time advanced, the outputs were published and the health monitor reset.
C23_PublishedReached ==
  /\ node.handled.handler = "groundtruthCallback"
  /\ UpdateCalled(TRUE, TRUE)
  /\ node.handled.published
  /\ node.handled.healthReset
  /\ node.init_state_.state_ = "WaitForInitExternalPose"
Handlers ==
  {"imuCallback", "imgCallback", "groundtruthCallback",
   "groundtruthOdometryCallback", "velocityCallback", "baroCallback",
   "requestReset", "requestResetToPose", "requestResetRefractiveIndex"}

C24_RequestReached ==
  /\ node.handled.handler = "requestResetRefractiveIndex"
  /\ node.handled.locks = 1
  /\ node.init_state_.state_ = "WaitForInitRefractiveIndex"

\* the distorted point and the branch taken
PointAndPath(d) == <<d.out, d.path>>

\* the index passed explicitly, where one is, is the stored one
StoredIndexPassed ==
  op \in {"distort(in,out,refrac_index)", "distort(in,out,refrac_index,J)"} =>
    arg.refrac_index = cam.refrac_ind_

\* C25: for every model and every input point, the distort overload with and
\* the one without a Jacobian, and the ones with the stored and with an
\* explicit refractive index equal to the stored one, give the same distorted
\* point and take the branch for a degenerate radius on the same inputs; so do
\* the two overloads of distortEquidist and of distortDoubleSphere.
C25_OverloadsAgree ==
  /\ (Returned(DistortOverloads) /\ StoredIndexPassed) =>
       /\ PointAndPath(res) = PointAndPath(distort(cam, arg.in))
       /\ PointAndPath(res) = PointAndPath(distort_J(cam, arg.in))
       /\ PointAndPath(res) = PointAndPath(distort_n(cam, arg.in, cam.refrac_ind_))
       /\ PointAndPath(res) = PointAndPath(distort_nJ(cam, arg.in, cam.refrac_ind_))
  /\ Returned({"distortEquidist(in,out)", "distortEquidist(in,out,J)"}) =>
       /\ PointAndPath(res) = PointAndPath(distortEquidist(cam, arg.in))
       /\ PointAndPath(res) = PointAndPath(distortEquidist_J(cam, arg.in))
  /\ Returned({"distortDoubleSphere(in,out)", "distortDoubleSphere(in,out,J)"}) =>
       /\ PointAndPath(res) = PointAndPath(distortDoubleSphere(cam, arg.in))
       /\ PointAndPath(res) = PointAndPath(distortDoubleSphere_J(cam, arg.in))

\* C25 happens: under EQUIREFRAC with the stored index 1.33,
\* distort(in,out,refrac_index,J) was called with the index 1.33 and returned
\* the point distort(in,out) gives, by the general branch.
C25_Witness ==
  /\ Returned({"distort(in,out,refrac_index,J)"})
  /\ cam.type_ = "EQUIREFRAC"
  /\ cam.refrac_ind_ = Milli(1330)
  /\ arg.refrac_index = Milli(1330)
  /\ arg.in = <<Milli(300), Milli(400)>>
  /\ res.path = "general"
  /\ res.out = distort(cam, arg.in).out
  /\ res.out # arg.in

\* C25 happens for the degenerate radius: distortDoubleSphere(in,out,J) of the
\* point (0,0) took the identity branch, as distortDoubleSphere(in,out) does.
C25_DegenerateReached ==
  /\ Returned({"distortDoubleSphere(in,out,J)"})
  /\ arg.in = <<0, 0>>
  /\ res.path = "identity"
  /\ distortDoubleSphere(cam, arg.in).path = "identity"

\* C26: when a bearingToPixel overload returns false, none of its output
\* arguments c, J and Jdpdn has been written; this is stated of every
\* overload, the ones on a manifold bearing with a 2x2 Jacobian included.
C26_FailureWritesNothing ==
  (Returned(BearingToPixelOverloads) /\ ~res.ret) =>
    /\ res.c = Unwritten
    /\ res.J = Unwritten
    /\ res.Jdpdn = Unwritten

\* C26 fails: bearingToPixel(n,c,J) has returned false for a manifold bearing
\* behind the camera, with c unwritten and J written with the product of the
\* never-assigned J2 and n.getM().
C26_Witness ==
  /\ Returned({"bearingToPixel(n,c,J)"})
  /\ arg.vec[3] < 0
  /\ ~res.ret
  /\ res.c = Unwritten
  /\ res.J # Unwritten
  /\ Len(res.J) = 2

\* C27: a handler that runs while the filter is not Initialized adds no
\* measurement to the filter, does not call updateAndPublish and publishes
\* nothing; an image, pose, odometry, velocity or barometer message is dropped
\* (the image set and the barometer offset are left as they were), and the IMU
\* message that initializes the filter is not added as a prediction
\* measurement.
C27_DroppedUntilInitialized ==
  [][~isInitialized(node.init_state_) =>
       /\ node'.handled.added = <<>>
       /\ node'.handled.calls = <<>>
       /\ ~node'.handled.published
       /\ node'.imgUpdateMeas_ = node.imgUpdateMeas_
       /\ node'.baro_offset_initialized_ = node.baro_offset_initialized_]_vars

\* C27 happens: the IMU message that reset the filter with the accelerometer
\* was handled; the state is Initialized and no prediction measurement was
\* added.
C27_Witness ==
  /\ node.handled.handler = "imuCallback"
  /\ node.mpFilter_.reset = "resetWithAccelerometer"
  /\ isInitialized(node.init_state_)
  /\ node.handled.added = <<>>
  /\ node.handled.calls = <<>>

\* C27 happens for an image: with a reset pending and the frame of camera 0
\* of a two-camera set stored, a frame arrived and was dropped.
C27_ImageDropped ==
  /\ node.handled.handler = "imgCallback"
  /\ ~isInitialized(node.init_state_)
  /\ node.nCam_ = 2
  /\ node.imgUpdateMeas_.isValidPyr_[0]
  /\ ~node.imgUpdateMeas_.isValidPyr_[1]
  /\ node.handled.added = <<>>

\* C27 happens for the barometer: a message was dropped before the first
\* initialization.
C27_BaroDropped ==
  /\ node.handled.handler = "baroCallback"
  /\ node.mpFilter_.reset = "none"
  /\ ~node.baro_offset_initialized_

\* the values of FilterInitializationState::State
States ==
  {"WaitForInitUsingAccel", "WaitForInitExternalPose", "WaitForInitRefractiveIndex",
   "Initialized"}

\* C28: init_state_.state_ is always one of the states imuCallback handles (the
\* abort of its default case is never reached); an IMU message handled while
\* the filter is not Initialized leaves it Initialized; with IMU messages
\* arriving, a filter that is not Initialized (at start-up, after a reset
\* request, after a reset by the health monitor) becomes Initialized; and the
\* state leaves Initialized only in a reset request or in a handler whose
\* health monitor asked for a reset.
C28_InitializedByImu ==
  /\ [](node.init_state_.state_ \in States)
  /\ [][(~isInitialized(node.init_state_) /\ ImuArrives) =>
          isInitialized(node'.init_state_)]_vars
  /\ (~isInitialized(node.init_state_) ~> isInitialized(node.init_state_))
  /\ [][(isInitialized(node.init_state_) /\ ~isInitialized(node'.init_state_)) =>
          \/ node'.handled.handler \in
               {"requestReset", "requestResetToPose", "requestResetRefractiveIndex"}
          \/ node'.handled.healthReset]_vars

\* C28 happens: a reset to the failsafe pose was pending, and the IMU message
\* handled next reset the filter with that pose and left it Initialized.
C28_Witness ==
  /\ node.handled.handler = "imuCallback"
  /\ node.mpFilter_.reset = "resetWithPose"
  /\ node.mpFilter_.WrWM = Failsafe.WrWM
  /\ request.kind = "none"
  /\ isInitialized(node.init_state_)

\* C28 happens after a request: requestResetRefractiveIndex was followed by an
\* IMU message and the filter is Initialized.
C28_RequestReached ==
  /\ node.handled.handler = "imuCallback"
  /\ node.mpFilter_.reset = "resetWithRefractiveIndex"
  /\ isInitialized(node.init_state_)

\* every pyramid of the set aux is valid, computed from a delivered image with
\* the stamp of the set, and carried by no measurement before
CompleteSet(aux) ==
  \A i \in DOMAIN aux.pyr_ :
    /\ aux.isValidPyr_[i]
    /\ aux.pyr_[i].stamp \in Stamps
    /\ aux.pyr_[i].stamp = aux.imgTime_
    /\ ~aux.pyr_[i].used

\* C29: an image update measurement added to the filter carries, for each of
\* the nCam_ cameras, a non-empty image with the stamp of the set, delivered
\* since the set was last reset and carried by no measurement before; the
\* pyramids valid in the set being assembled all have the stamp of the set (an
\* image with another stamp discards the set before it is stored); and when a
\* measurement has been added no pyramid of the set is valid.
C29_SynchronizedSet ==
  /\ DOMAIN node.imgUpdateMeas_.pyr_ = 0 .. node.nCam_ - 1
  /\ \A k \in DOMAIN node.handled.images : CompleteSet(node.handled.images[k])
  /\ Len(node.handled.images) = Cardinality({k \in DOMAIN node.handled.added :
                                                node.handled.added[k] = "img"})
  /\ Len(node.handled.images) <= 1
  /\ \A i \in DOMAIN node.imgUpdateMeas_.pyr_ :
       node.imgUpdateMeas_.isValidPyr_[i] =>
         /\ node.imgUpdateMeas_.pyr_[i].stamp = node.imgUpdateMeas_.imgTime_
         /\ ~node.imgUpdateMeas_.pyr_[i].used
  /\ node.handled.added = <<"img">> =>
       \A i \in DOMAIN node.imgUpdateMeas_.pyr_ : ~node.imgUpdateMeas_.isValidPyr_[i]

\* C29 happens: on a node with two cameras a measurement was added with two
\* frames of stamp 2 after the frame of camera 0 with stamp 1 was discarded;
\* the set is reset and both pyramids are marked carried.
C29_Witness ==
  /\ node.nCam_ = 2
  /\ node.handled.handler = "imgCallback"
  /\ node.handled.added = <<"img">>
  /\ node.handled.images[1].imgTime_ = 2
  /\ node.handled.images[1].pyr_[0].stamp = 2
  /\ node.handled.images[1].pyr_[1].stamp = 2
  /\ node.imgUpdateMeas_.pyr_[0].used
  /\ node.imgUpdateMeas_.pyr_[1].used
  /\ ~node.imgUpdateMeas_.isValidPyr_[0]
  /\ ~node.imgUpdateMeas_.isValidPyr_[1]

\* C29 happens for the discard: the frame of camera 0 with stamp 1 was stored,
\* then the frame of camera 1 with stamp 2 arrived; the set has the stamp 2,
\* only the pyramid of camera 1 is valid and nothing was added.
C29_DiscardReached ==
  /\ node.nCam_ = 2
  /\ node.handled.handler = "imgCallback"
  /\ node.handled.added = <<>>
  /\ node.imgUpdateMeas_.imgTime_ = 2
  /\ node.imgUpdateMeas_.pyr_[0] = [stamp |-> 1, used |-> FALSE]
  /\ ~node.imgUpdateMeas_.isValidPyr_[0]
  /\ node.imgUpdateMeas_.isValidPyr_[1]
====
